---- MODULE Spec2Model ----
(***************************************************************************)
(* A model of omnitensor-core: the stake manager, the transaction data     *)
(* model, the validator / synchronizer pair working on the shared chain,   *)
(* and the consensus engine's voting.                                       *)
(*                                                                         *)
(* Each subsystem has its own specification (SpecStake, SpecTx, ...); the  *)
(* variables of the other subsystems stay at their idle values.            *)
(***************************************************************************)
EXTENDS Integers, Sequences, FiniteSets, Bags, TLC

VARIABLES
    \* ---- StakeManager (src/src/consensus/stake_manager.rs)
    stakes,      \* the persisted stake map, storage key b"stakes": Address -> Stake
    pre,         \* the persisted stake map before the last call
    lastOp,      \* the last call: its name, arguments and result
    clock,       \* Utc::now(), advanced by one with every call
    \* ---- Transaction (src/src/chain/transaction.rs)
    tx,          \* the transaction under test
    signedWith,  \* the private key of the last successful sign(), or "none"
    tampered,    \* whether a field was changed after the last sign()
    preSignHash, \* <<hash()>> as returned right before the last sign(), or <<>>
    verifyResult,\* the result of the last verify(): [pk, result], or the idle record
    \* ---- Validator and Synchronizer on the shared chain
    \*      (src/src/consensus/validator.rs, src/src/network/sync.rs)
    chain,       \* the committed blocks in commit order, genesis first
    pending,     \* the pending pool, in arrival order
    nonces,      \* the account state apply_transaction keeps: Address -> next nonce
    now,         \* chrono::Utc::now().timestamp()
    vpc,         \* where Validator::validate_and_propose_block is suspended
    vtxs,        \* the validator's copy of the pending transactions
    vblock,      \* <<block>> the validator is proposing, or <<>>
    vresult,     \* how the validator's last slot ended
    \* ---- ConsensusEngine voting (used by src/tests/consensus_tests.rs)
    estake,      \* the live stake of every validator, 0 when it has none
    active,      \* active_validators
    slashed,     \* equivocations: the slashed validators
    snap,        \* height -> the stake snapshot votes at that height are weighed by
    votes,       \* (height, block hash) -> the validators whose vote is recorded
    final,       \* the blocks marked final, each with the votes that counted
    ehead,       \* the height of the engine's committed head
    cast,        \* the vote calls active validators made, with the result:
                 \* <<validator, height, hash, result>>
    \* ---- Block (src/src/chain/block.rs)
    blk,         \* <<block>> once Block::new has succeeded, or <<>>
    bpre,        \* blk before the last call
    bop,         \* the last call on the block and its result
    bstage,      \* what the block has been through: "none", "new", "mined",
                 \* "tampered" (merkle_root overwritten), "altered" (transactions changed)
    bsalt,       \* how the header's digest depends on the fields other than nonce
    \* ---- Synchronizer::sync_with_peer (src/src/network/sync.rs)
    speer,       \* the peer: the height of its chain, the height of the block
                 \* it serves that fails validation (0 when it serves none),
                 \* and whether it answers range requests with an empty list
    slocal,      \* chain.get_height() of the local chain
    sstart,      \* start_height
    send,        \* end_height
    scur,        \* current_height
    sbatch,      \* the blocks of the fetched range still to be processed
    sappended,   \* the heights appended by this cycle, in order
    sfailed,     \* the height of the block process_block failed on, 0 if none
    spc,         \* where the cycle is: "idle", "loop", "fetch", "batch", "done",
                 \* "aborted_fetch", "aborted_block"
    \* ---- Synchronizer::start and sync_with_network (src/src/network/sync.rs)
    npeers,      \* get_active_peers(): the peers in order, each with the height
                 \* of its chain and the height of the block it serves that
                 \* fails validation (0 when it serves none)
    nlocal,      \* chain.get_height() of the local chain
    nsel,        \* the peer sync_with_peer is running against, 0 when none
    ncycles,     \* the cycles so far: the peer chosen (0 when none), how the
                 \* cycle ended, and the local height it left
    npc,         \* "sleep" between two cycles, "syncing" inside sync_with_peer
    \* ---- Validator::start of several validators (src/src/consensus/validator.rs)
    slotStake,   \* the stake snapshot proposer selection reads
    slotChain,   \* the chain the validators add to: height, proposer and
                 \* parent of every block
    slotPc,      \* per validator: "tick" or "broadcast"
    slotBlock,   \* per validator: <<block>> it is proposing, or <<>>
    \* ---- ConsensusEngine fork choice (used by src/tests/consensus_tests.rs)
    fkHash,      \* the hash of every block, as a number
    fkVotes,     \* the vote weight recorded for every block
    fkFinal,     \* the blocks marked final
    fkKnown,     \* the blocks add_block has taken
    fkCanon,     \* <<chain>> the last get_canonical_chain returned, or <<>>
    \* ---- Database (src/src/storage/db.rs)
    dbStore,     \* the RocksDB column: key bytes -> value bytes
    dbScan,      \* the last prefix_scan since the last write: its prefix and
                 \* the pairs it returned, or the idle record
    \* ---- Validator::start and Synchronizer::start as tasks
    \*      (src/src/consensus/validator.rs, src/src/network/sync.rs)
    shutdown,    \* whether the shared shutdown signal has been raised
    lvPc,        \* the validator loop: "tick" (interval.tick().await), "slot",
                 \* "broadcast" (broadcast_block(..).await), "exited"
    lvLast,      \* how the validator's last slot ended
    lsPc,        \* the synchronizer loop: "cycle", "request" (a peer request
                 \* in flight), "commit" (process_block), "sleep", "exited"
    lsLast       \* how the synchronizer's last cycle ended

stakeVars == <<stakes, pre, lastOp, clock>>
txVars == <<tx, signedWith, tampered, preSignHash, verifyResult>>
chainVars == <<chain, pending, nonces, now, vpc, vtxs, vblock, vresult>>
voteVars == <<estake, active, slashed, snap, votes, final, ehead, cast>>
blockVars == <<blk, bpre, bop, bstage, bsalt>>
syncVars == <<speer, slocal, sstart, send, scur, sbatch, sappended, sfailed, spc>>
netVars == <<npeers, nlocal, nsel, ncycles, npc>>
slotVars == <<slotStake, slotChain, slotPc, slotBlock>>
forkVars == <<fkHash, fkVotes, fkFinal, fkKnown, fkCanon>>
dbVars == <<dbStore, dbScan>>
loopVars == <<shutdown, lvPc, lvLast, lsPc, lsLast>>
vars == <<stakeVars, txVars, chainVars, voteVars, blockVars, syncVars, netVars, slotVars, forkVars, dbVars, loopVars>>

(***************************************************************************)
(* Bounds of the model.                                                    *)
(***************************************************************************)
MaxOps == 4        \* calls made on the stake manager
MaxHeight == 2     \* block heights handed to distribute_rewards
MaxSigns == 2      \* sign() calls on one transaction
MaxTamper == 1     \* field changes made on one transaction
MaxTime == 2       \* seconds the wall clock runs
MaxChain == 2      \* blocks committed after genesis
MaxPool == 1       \* transactions in the pending pool
MaxVoteHeight == 1 \* heights the engine takes votes for
MaxBlockTxs == 2   \* transactions handed to Block::new
MaxLeaves == 5     \* transactions under one Merkle root
MaxDifficulty == 2 \* header.difficulty
MaxPeerHeight == 251 \* the height of the peer's chain
MaxCycles == 3     \* cycles of the synchronizer's loop
MaxNetHeight == 3  \* the heights of the peers' chains in those cycles
MaxSlotHeight == 2 \* heights the validators propose for

Addresses == {"a1", "a2"}

(***************************************************************************)
(* StakeManager                                                            *)
(***************************************************************************)
\* StakeManager::new(storage, Balance::from(100), 0.001) as the tests build it.
min_stake == 100
\* reward_rate = 0.001, kept as the exact rational RateNum / RateDen.
RateNum == 1
RateDen == 1000

\* The amounts the calls are made with: below min_stake, min_stake itself,
\* and amounts whose difference is positive and below min_stake.
Amounts == {50, 100, 450, 500}

NoStakes == [a \in {} |-> 0]

\* Stake { amount: Balance::zero(), staked_at: Utc::now(), last_reward_height: 0 }
NewStake(t) == [amount |-> 0, staked_at |-> t, last_reward_height |-> 0]

\* The error stake() returns, or "Ok".
stake_result(s, address, amount) ==
    IF amount < min_stake THEN "InsufficientBalance" ELSE "Ok"

\* stake() with insert() in place of entry().or_insert(): an existing entry is
\* replaced by a fresh one.
stake_map_insert(s, address, amount, t) ==
    IF amount < min_stake THEN s
    ELSE [a \in DOMAIN s \cup {address} |->
             IF a = address THEN [NewStake(t) EXCEPT !.amount = amount] ELSE s[a]]

\* The map stake() persists; unchanged when it returns early.
stake_map(s, address, amount, t) ==
    IF amount < min_stake THEN s
    ELSE LET e == IF address \in DOMAIN s THEN s[address] ELSE NewStake(t)
         IN  [a \in DOMAIN s \cup {address} |->
                 IF a = address THEN [e EXCEPT !.amount = @ + amount] ELSE s[a]]

\* The error unstake() returns, or "Ok".
unstake_result(s, address, amount) ==
    IF address \notin DOMAIN s THEN "StakeNotFound"
    ELSE IF s[address].amount < amount THEN "InsufficientBalance"
    ELSE "Ok"

\* What unstake() returns inside Ok: the amount asked for; 0 stands for an Err.
unstake_returned(s, address, amount) ==
    IF unstake_result(s, address, amount) = "Ok" THEN amount ELSE 0

\* unstake() without the remove(): an entry that reaches zero stays in the map.
unstake_map_keep_zero(s, address, amount) ==
    IF unstake_result(s, address, amount) # "Ok" THEN s
    ELSE [s EXCEPT ![address].amount = @ - amount]

\* The map unstake() persists: the entry is removed only when it reaches zero.
unstake_map(s, address, amount) ==
    IF unstake_result(s, address, amount) # "Ok" THEN s
    ELSE IF s[address].amount - amount = 0
         THEN [a \in DOMAIN s \ {address} |-> s[a]]
         ELSE [s EXCEPT ![address].amount = @ - amount]

\* f64::round: to the nearest integer, halves away from zero (n, d > 0).
Round(n, d) == (2 * n + d) \div (2 * d)

\* calculate_rewards counting the blocks from height 0 instead of from the
\* entry's last_reward_height.
calculate_rewards_since_genesis(s, address, current_height) ==
    Round(s[address].amount * RateNum * current_height, RateDen)

\* The width of a BlockHeight, scaled down from 64 bits so that a wrapped
\* difference stays within the checker's integers.
HeightBits == 4

\* current_height - stake.last_reward_height in unsigned arithmetic of
\* HeightBits bits: the difference itself when it is not negative,
\* 2^HeightBits more when it is.
blocks_since_last_reward(s, address, current_height) ==
    (current_height - s[address].last_reward_height) % (2 ^ HeightBits)

\* calculate_rewards on an entry that exists.
calculate_rewards(s, address, current_height) ==
    Round(s[address].amount * RateNum * blocks_since_last_reward(s, address, current_height),
          RateDen)

\* current_height - stake.last_reward_height underflows for some entry.
RewardUnderflow(s, current_height) ==
    \E a \in DOMAIN s : current_height < s[a].last_reward_height

\* The map distribute_rewards() persists: every entry is credited its reward,
\* read from the persisted map, and stamped with current_height.
distribute_map(s, current_height) ==
    [a \in DOMAIN s |->
        [s[a] EXCEPT !.amount = @ + calculate_rewards(s, a, current_height),
                     !.last_reward_height = current_height]]

RECURSIVE SumAmounts(_, _)
SumAmounts(s, as) ==
    IF as = {} THEN 0
    ELSE LET a == CHOOSE x \in as : TRUE
         IN  s[a].amount + SumAmounts(s, as \ {a})

\* get_total_staked answering from the map as it was before the last call.
get_total_staked_stale(s) == SumAmounts(pre, DOMAIN pre)

\* get_total_staked: the sum of amount over the persisted map.
get_total_staked(s) == SumAmounts(s, DOMAIN s)

IdleOp ==
    [op |-> "none", address |-> "none", amount |-> 0, height |-> 0,
     result |-> "none", returned |-> 0]

InitStakeVars ==
    /\ stakes = NoStakes
    /\ pre = NoStakes
    /\ lastOp = IdleOp
    /\ clock = 0

Stake(address, amount) ==
    /\ clock < MaxOps
    /\ pre' = stakes
    /\ stakes' = stake_map(stakes, address, amount, clock)
    /\ lastOp' = [op |-> "stake", address |-> address, amount |-> amount, height |-> 0,
                  result |-> stake_result(stakes, address, amount), returned |-> 0]
    /\ clock' = clock + 1

Unstake(address, amount) ==
    /\ clock < MaxOps
    /\ pre' = stakes
    /\ stakes' = unstake_map(stakes, address, amount)
    /\ lastOp' = [op |-> "unstake", address |-> address, amount |-> amount, height |-> 0,
                  result |-> unstake_result(stakes, address, amount),
                  returned |-> unstake_returned(stakes, address, amount)]
    /\ clock' = clock + 1

\* With current_height below an entry's last_reward_height the subtraction
\* overflows. A build with overflow checks panics there and persists nothing;
\* a build without them wraps, credits the reward of the wrapped difference
\* and stamps the entry with current_height.
DistributeRewards(current_height, overflow_checks) ==
    /\ clock < MaxOps
    /\ pre' = stakes
    /\ stakes' = IF RewardUnderflow(stakes, current_height) /\ overflow_checks
                 THEN stakes
                 ELSE distribute_map(stakes, current_height)
    /\ lastOp' = [op |-> "distribute_rewards", address |-> "none", amount |-> 0,
                  height |-> current_height,
                  result |-> IF RewardUnderflow(stakes, current_height) /\ overflow_checks
                             THEN "Panic" ELSE "Ok",
                  returned |-> 0]
    /\ clock' = clock + 1

StakeCall == \E a \in Addresses, m \in Amounts : Stake(a, m) /\ UNCHANGED <<txVars, chainVars, voteVars, blockVars, syncVars, netVars, slotVars, forkVars, dbVars, loopVars>>
UnstakeCall == \E a \in Addresses, m \in Amounts : Unstake(a, m) /\ UNCHANGED <<txVars, chainVars, voteVars, blockVars, syncVars, netVars, slotVars, forkVars, dbVars, loopVars>>
DistributeCall == \E h \in 0..MaxHeight, oc \in BOOLEAN : DistributeRewards(h, oc) /\ UNCHANGED <<txVars, chainVars, voteVars, blockVars, syncVars, netVars, slotVars, forkVars, dbVars, loopVars>>

NextStake == StakeCall \/ UnstakeCall \/ DistributeCall

(***************************************************************************)
(* Transaction                                                             *)
(***************************************************************************)
Keys == {"k1", "k2"}

\* KeyPair: the public key that belongs to a private key.
PublicKeyOf(k) == <<"pub", k>>

\* Hash::hash, taken as collision-free: the digest stands for its input.
Hash(bytes) == [digest |-> bytes]

\* Signature::sign(message, private_key)
SignatureSign(message, private_key) == [signer |-> private_key, msg |-> message]

\* Signature::verify(message, public_key)
SignatureVerify(signature, message, public_key) ==
    /\ signature.msg = message
    /\ PublicKeyOf(signature.signer) = public_key

\* bincode::serialize(self): every field in declared order; an Option is its
\* tag followed by its payload. The signature field is <<>> for None and
\* <<s>> for Some(s).
Serialize(t) ==
    <<t.nonce, t.from, t.to, t.value, t.gas_price, t.gas_limit, t.data,
      t.transaction_type, t.timestamp,
      IF t.signature = <<>> THEN <<0>> ELSE <<1, t.signature[1]>> >>

\* Transaction::hash: the digest of the serialization of the whole struct.
hash(t) == Hash(Serialize(t))

\* Transaction::sign
sign(t, private_key) == [t EXCEPT !.signature = <<SignatureSign(hash(t), private_key)>>]

\* Transaction::verify
verify(t, public_key) ==
    IF t.signature = <<>> THEN "MissingSignature"
    ELSE IF SignatureVerify(t.signature[1], hash(t), public_key) THEN "OkTrue"
    ELSE "OkFalse"

\* Transaction::new
NewTransaction(nonce, from, to, value) ==
    [nonce |-> nonce, from |-> from, to |-> to, value |-> value,
     gas_price |-> 10, gas_limit |-> 21000, data |-> <<>>,
     transaction_type |-> "Transfer", timestamp |-> 0, signature |-> <<>>]

IdleVerify == [pk |-> <<"pub", "none">>, result |-> "none"]
IdleTx == NewTransaction(0, "a1", "a1", 0)

IdleTxVars ==
    /\ tx = IdleTx
    /\ signedWith = "none"
    /\ tampered = FALSE
    /\ preSignHash = <<>>
    /\ verifyResult = IdleVerify

InitTxVars ==
    /\ tx \in {NewTransaction(n, f, t, v) :
                 n \in 0..1, f \in Addresses, t \in Addresses, v \in {100, 200}}
    /\ signedWith = "none"
    /\ tampered = FALSE
    /\ preSignHash = <<>>
    /\ verifyResult = IdleVerify

RECURSIVE SignDepth(_)
\* How many signatures are nested in a transaction's signature field.
SignDepth(t) ==
    IF t.signature = <<>> THEN 0
    ELSE LET inner == t.signature[1].msg.digest[10]
         IN  IF inner = <<0>> THEN 1
             ELSE 1 + SignDepth([t EXCEPT !.signature = <<inner[2]>>])

Sign(k) ==
    /\ SignDepth(tx) < MaxSigns
    /\ preSignHash' = <<hash(tx)>>
    /\ tx' = sign(tx, k)
    /\ signedWith' = k
    /\ tampered' = FALSE
    /\ verifyResult' = IdleVerify

\* tx.value += 1, as the test tampers with a signed transaction.
TamperValue ==
    /\ tx.value % 100 < MaxTamper
    /\ tx' = [tx EXCEPT !.value = @ + 1]
    /\ tampered' = (signedWith # "none")
    /\ verifyResult' = IdleVerify
    /\ UNCHANGED <<signedWith, preSignHash>>

Verify(k) ==
    /\ verifyResult' = [pk |-> PublicKeyOf(k), result |-> verify(tx, PublicKeyOf(k))]
    /\ UNCHANGED <<tx, signedWith, tampered, preSignHash>>

SignCall == \E k \in Keys : Sign(k) /\ UNCHANGED <<stakeVars, chainVars, voteVars, blockVars, syncVars, netVars, slotVars, forkVars, dbVars, loopVars>>
TamperCall == TamperValue /\ UNCHANGED <<stakeVars, chainVars, voteVars, blockVars, syncVars, netVars, slotVars, forkVars, dbVars, loopVars>>
VerifyCall == \E k \in Keys : Verify(k) /\ UNCHANGED <<stakeVars, chainVars, voteVars, blockVars, syncVars, netVars, slotVars, forkVars, dbVars, loopVars>>

NextTx == SignCall \/ TamperCall \/ VerifyCall

(***************************************************************************)
(* The chain store, the pending pool and the engine's block verification   *)
(***************************************************************************)
\* The transactions of the chain model: sender, nonce, and whether
\* verify_signature accepts the signature.
PoolTx(from, nonce, sig_ok) == [from |-> from, nonce |-> nonce, sig_ok |-> sig_ok]
Senders == {"a1"}
\* The sender's first two nonces properly signed, and one bad signature.
PoolTxs == {PoolTx("a1", 0, TRUE), PoolTx("a1", 1, TRUE), PoolTx("a1", 0, FALSE)}

\* Validator::calculate_merkle_root: one digest over the transaction hashes
\* in order.
calculate_merkle_root(transactions) == Hash(<<"merkle", transactions>>)

\* Block::calculate_hash: the digest of the header.
calculate_hash(prev_hash, timestamp, transactions, validator) ==
    Hash(<<prev_hash, timestamp, calculate_merkle_root(transactions), validator>>)

MakeBlock(prev_hash, timestamp, transactions, validator) ==
    [hash |-> calculate_hash(prev_hash, timestamp, transactions, validator),
     prev_hash |-> prev_hash, timestamp |-> timestamp,
     transactions |-> transactions, validator |-> validator]

GenesisHash == Hash(<<"genesis">>)
UnknownHash == Hash(<<"unknown">>)
Genesis ==
    [hash |-> GenesisHash, prev_hash |-> Hash(<<"zero">>), timestamp |-> 0,
     transactions |-> <<>>, validator |-> "genesis", height |-> 0]

\* BlockchainDB::get_latest_block / Chain::get_height
get_latest_block(c) == c[Len(c)]
get_height(c) == c[Len(c)].height

KnownHashes(c) == {c[i].hash : i \in 1..Len(c)}
BlockByHash(c, h) == c[CHOOSE i \in 1..Len(c) : c[i].hash = h]

\* The error add_block returns, or "Ok": a block already known is accepted
\* again, a block that does not extend the head or whose timestamp does not
\* exceed the head's is refused.
add_block_result(c, block) ==
    IF block.hash \in KnownHashes(c) THEN "Ok"
    ELSE IF block.prev_hash # get_latest_block(c).hash THEN "UnknownParent"
    ELSE IF block.timestamp <= get_latest_block(c).timestamp THEN "BadTimestamp"
    ELSE "Ok"

\* add_block that takes a block on any known parent.
add_block_any_parent(c, block) ==
    IF \/ block.hash \in KnownHashes(c)
       \/ block.prev_hash \notin KnownHashes(c)
       \/ block.timestamp <= BlockByHash(c, block.prev_hash).timestamp
    THEN c
    ELSE Append(c, [hash |-> block.hash, prev_hash |-> block.prev_hash,
                    timestamp |-> block.timestamp,
                    transactions |-> block.transactions,
                    validator |-> block.validator,
                    height |-> BlockByHash(c, block.prev_hash).height + 1])

\* add_block that does not compare the timestamp with the head's.
add_block_any_time(c, block) ==
    IF \/ block.hash \in KnownHashes(c)
       \/ block.prev_hash # get_latest_block(c).hash
    THEN c
    ELSE Append(c, [hash |-> block.hash, prev_hash |-> block.prev_hash,
                    timestamp |-> block.timestamp,
                    transactions |-> block.transactions,
                    validator |-> block.validator,
                    height |-> BlockByHash(c, block.prev_hash).height + 1])

\* The chain add_block leaves: the block appended one above its parent,
\* nothing for a block already known or refused.
add_block(c, block) ==
    IF block.hash \in KnownHashes(c) \/ add_block_result(c, block) # "Ok" THEN c
    ELSE Append(c, [hash |-> block.hash, prev_hash |-> block.prev_hash,
                    timestamp |-> block.timestamp,
                    transactions |-> block.transactions,
                    validator |-> block.validator,
                    height |-> BlockByHash(c, block.prev_hash).height + 1])

\* ConsensusEngine::verify_block: the header links to a known block.
verify_block(block, c) ==
    IF block.prev_hash \in KnownHashes(c) THEN "Ok" ELSE "UnknownParent"

RECURSIVE apply_transactions(_, _)
\* Chain::apply_transaction over the block's transactions in order, stopping
\* at the first that fails: [state, result]. A transaction applies when its
\* signature verifies and its nonce is the sender's next nonce.
apply_transactions(state, transactions) ==
    IF transactions = <<>> THEN [state |-> state, result |-> "Ok"]
    ELSE LET t == Head(transactions)
         IN  IF ~t.sig_ok THEN [state |-> state, result |-> "BadSignature"]
             ELSE IF t.nonce # state[t.from] THEN [state |-> state, result |-> "BadNonce"]
             ELSE apply_transactions([state EXCEPT ![t.from] = @ + 1], Tail(transactions))

\* The pool's admission: a transaction not yet in the pool whose nonce is not
\* below the sender's account nonce, while there is room.
Admits(pool, state, t) ==
    /\ Len(pool) < MaxPool
    /\ \A i \in 1..Len(pool) : pool[i] # t
    /\ t.nonce >= state[t.from]

(***************************************************************************)
(* Validator                                                               *)
(***************************************************************************)
\* Validator::is_transaction_valid: the signature check alone.
is_transaction_valid(transaction) == transaction.sig_ok

\* Validator::validate_transactions
validate_transactions(transactions) == SelectSeq(transactions, is_transaction_valid)

\* Validator::create_block: the head is read under the lock, which is
\* released when the statement ends.
create_block(c, transactions, t) ==
    MakeBlock(get_latest_block(c).hash, t, transactions, "validator")

InitChainVars ==
    /\ chain = <<Genesis>>
    /\ pending = <<>>
    /\ nonces = [a \in Senders |-> 0]
    /\ now = 1
    /\ vpc = "tick"
    /\ vtxs = <<>>
    /\ vblock = <<>>
    /\ vresult = "none"

\* A second of wall-clock time passes.
ClockTick ==
    /\ now < MaxTime
    /\ now' = now + 1
    /\ UNCHANGED <<chain, pending, nonces, vpc, vtxs, vblock, vresult>>

\* network.add_pending_transactions: a transaction reaches the pending pool.
AddPending(t) ==
    /\ Admits(pending, nonces, t)
    /\ pending' = Append(pending, t)
    /\ UNCHANGED <<chain, nonces, now, vpc, vtxs, vblock, vresult>>

\* validate_and_propose_block up to the end of get_pending_transactions().await
GetPending ==
    /\ vpc = "tick"
    /\ Len(chain) <= MaxChain
    /\ vtxs' = pending
    /\ vpc' = "fetched"
    /\ UNCHANGED <<chain, pending, nonces, now, vblock, vresult>>

\* validate_and_propose_block from there to broadcast_block(..).await: the two
\* early returns, create_block, and propose_block up to the broadcast.
CreateAndBroadcast ==
    /\ vpc = "fetched"
    /\ IF vtxs = <<>> \/ validate_transactions(vtxs) = <<>>
       THEN /\ vpc' = "tick"
            /\ vresult' = IF vtxs = <<>> THEN "NoPending" ELSE "NoValid"
            /\ vblock' = <<>>
       ELSE /\ vpc' = "broadcast"
            /\ vresult' = "none"
            /\ vblock' = <<create_block(chain, validate_transactions(vtxs), now)>>
    /\ vtxs' = <<>>
    /\ UNCHANGED <<chain, pending, nonces, now>>

\* propose_block after a successful broadcast: the chain is locked again and
\* the block added.
ProposeAdd ==
    /\ vpc = "broadcast"
    /\ chain' = add_block(chain, vblock[1])
    /\ vresult' = add_block_result(chain, vblock[1])
    /\ vpc' = "tick"
    /\ vblock' = <<>>
    /\ UNCHANGED <<pending, nonces, now, vtxs>>

\* propose_block when broadcast_block fails: the ? returns the error.
BroadcastFails ==
    /\ vpc = "broadcast"
    /\ vresult' = "BroadcastError"
    /\ vpc' = "tick"
    /\ vblock' = <<>>
    /\ UNCHANGED <<chain, pending, nonces, now, vtxs>>

(***************************************************************************)
(* Synchronizer                                                            *)
(***************************************************************************)
\* A block of the chain as a peer serves it back.
AsBlock(entry) ==
    [hash |-> entry.hash, prev_hash |-> entry.prev_hash,
     timestamp |-> entry.timestamp, transactions |-> entry.transactions,
     validator |-> entry.validator]

\* The transaction lists of the blocks peers serve: none, one transaction,
\* or a good transaction followed by one whose signature fails.
PeerTxLists ==
    {<<>>} \cup {<<x>> : x \in PoolTxs}
           \cup {<<PoolTx("a1", 0, TRUE), PoolTx("a1", 0, FALSE)>>}

\* The blocks a peer can answer with: on any known block or on none, with
\* any timestamp, and the blocks above genesis the local chain already holds.
PeerBlocks(c) ==
    {MakeBlock(p, t, txs, "peer") :
        p \in KnownHashes(c) \cup {UnknownHash},
        t \in 1..MaxTime,
        txs \in PeerTxLists}
    \cup {AsBlock(c[i]) : i \in 2..Len(c)}

\* The error Synchronizer::process_block returns, or "Ok".
process_block_result(c, state, block) ==
    IF verify_block(block, c) # "Ok" THEN verify_block(block, c)
    ELSE IF apply_transactions(state, block.transactions).result # "Ok"
         THEN apply_transactions(state, block.transactions).result
    ELSE add_block_result(c, block)

\* Synchronizer::process_block under the chain's write lock: verify_block,
\* then every apply_transaction, then add_block; the first error returns
\* with what was applied until then. The chain and the account state it
\* leaves, and its result.
process_block(c, state, block) ==
    IF verify_block(block, c) # "Ok"
    THEN [chain |-> c, state |-> state, result |-> verify_block(block, c)]
    ELSE LET applied == apply_transactions(state, block.transactions)
         IN  IF applied.result # "Ok"
             THEN [chain |-> c, state |-> applied.state, result |-> applied.result]
             ELSE [chain |-> add_block(c, block), state |-> applied.state,
                   result |-> add_block_result(c, block)]

ProcessBlock(block) ==
    /\ Len(chain) <= MaxChain
    /\ nonces' = process_block(chain, nonces, block).state
    /\ chain' = process_block(chain, nonces, block).chain
    /\ UNCHANGED <<pending, now, vpc, vtxs, vblock, vresult>>

ClockStep == ClockTick /\ UNCHANGED <<stakeVars, txVars, voteVars, blockVars, syncVars, netVars, slotVars, forkVars, dbVars, loopVars>>
AddPendingStep == \E t \in PoolTxs : AddPending(t) /\ UNCHANGED <<stakeVars, txVars, voteVars, blockVars, syncVars, netVars, slotVars, forkVars, dbVars, loopVars>>
GetPendingStep == GetPending /\ UNCHANGED <<stakeVars, txVars, voteVars, blockVars, syncVars, netVars, slotVars, forkVars, dbVars, loopVars>>
CreateStep == CreateAndBroadcast /\ UNCHANGED <<stakeVars, txVars, voteVars, blockVars, syncVars, netVars, slotVars, forkVars, dbVars, loopVars>>
ProposeAddStep == ProposeAdd /\ UNCHANGED <<stakeVars, txVars, voteVars, blockVars, syncVars, netVars, slotVars, forkVars, dbVars, loopVars>>
BroadcastFailsStep == BroadcastFails /\ UNCHANGED <<stakeVars, txVars, voteVars, blockVars, syncVars, netVars, slotVars, forkVars, dbVars, loopVars>>
ProcessBlockStep ==
    \E b \in PeerBlocks(chain) : ProcessBlock(b) /\ UNCHANGED <<stakeVars, txVars, voteVars, blockVars, syncVars, netVars, slotVars, forkVars, dbVars, loopVars>>

NextChain ==
    \/ ClockStep
    \/ AddPendingStep
    \/ GetPendingStep
    \/ CreateStep
    \/ ProposeAddStep
    \/ BroadcastFailsStep
    \/ ProcessBlockStep

(***************************************************************************)
(* ConsensusEngine: votes, slashing and finality                           *)
(***************************************************************************)
Validators == {"v1", "v2", "v3"}
BlockHashes == {"X", "Y"}
VoteHeights == 1..MaxVoteHeight

\* The validator sets register_validator builds before the first vote: the
\* two validators of 600 and 400, and three validators of 500, 300 and 200.
StakeConfigs ==
    { [v \in Validators |-> CASE v = "v1" -> 600 [] v = "v2" -> 400 [] OTHER -> 0],
      [v \in Validators |-> CASE v = "v1" -> 500 [] v = "v2" -> 300 [] OTHER -> 200] }

NoSnapshot == [v \in Validators |-> 0]

RECURSIVE Weight(_, _)
\* The stake the snapshot w gives the validators vs, summed.
Weight(w, vs) ==
    IF vs = {} THEN 0
    ELSE LET v == CHOOSE x \in vs : TRUE
         IN  w[v] + Weight(w, vs \ {v})

\* total_weight taken from the live stake map instead of the snapshot.
total_weight_live(h) == Weight(estake, Validators)

\* total_weight at height h: the whole of the snapshot at h - 1.
total_weight(h) == Weight(snap[h], Validators)

\* The accumulated weight of a set of recorded votes at height h; a slashed
\* validator's vote carries no weight.
accumulated_weight(h, voters) == Weight(snap[h], voters \ slashed)

\* A threshold of one third, reached rather than exceeded.
reaches_third(weight, total) == 3 * weight >= total

\* The finality threshold: strictly more than 2/3 of the total weight.
exceeds_threshold(weight, total) == 3 * weight > 2 * total

\* The equivocation check looking only at the votes of the height being
\* decided, ehead + 1.
equivocates_at_head(v, h, block_hash) ==
    /\ h = ehead + 1
    /\ \E other \in BlockHashes \ {block_hash} : v \in votes[<<h, other>>]

\* The validator has a recorded vote at height h for another hash.
equivocates(v, h, block_hash) ==
    \E other \in BlockHashes \ {block_hash} : v \in votes[<<h, other>>]

IsFinal(h, block_hash) == \E f \in final : f.height = h /\ f.hash = block_hash

InitVoteVars ==
    /\ estake \in StakeConfigs
    /\ active = {v \in Validators : estake[v] > 0}
    /\ slashed = {}
    /\ snap = [h \in VoteHeights |-> IF h = 1 THEN estake ELSE NoSnapshot]
    /\ votes = [k \in VoteHeights \X BlockHashes |-> {}]
    /\ final = {}
    /\ ehead = 0
    /\ cast = {}

IdleVoteVars ==
    /\ estake = NoSnapshot
    /\ active = {}
    /\ slashed = {}
    /\ snap = [h \in VoteHeights |-> NoSnapshot]
    /\ votes = [k \in VoteHeights \X BlockHashes |-> {}]
    /\ final = {}
    /\ ehead = 0
    /\ cast = {}

\* ConsensusEngine::vote takes votes for the heights whose snapshot exists.
\* vote() from a caller that is not an active validator: the message is dropped.
VoteDropped(v, h, block_hash) ==
    /\ h <= ehead + 1
    /\ v \notin active
    /\ UNCHANGED <<estake, active, slashed, snap, votes, final, ehead, cast>>

\* vote() that conflicts with a recorded vote: the equivocation is recorded,
\* the validator removed from the active set, its stake confiscated.
VoteSlashed(v, h, block_hash) ==
    /\ h <= ehead + 1
    /\ v \in active
    /\ equivocates(v, h, block_hash)
    /\ slashed' = slashed \cup {v}
    /\ active' = active \ {v}
    /\ estake' = [estake EXCEPT ![v] = 0]
    /\ cast' = cast \cup {<<v, h, block_hash, "Slashed">>}
    /\ UNCHANGED <<snap, votes, final, ehead>>

\* vote() that is recorded: the block is marked final when the accumulated
\* weight exceeds the threshold.
VoteRecorded(v, h, block_hash) ==
    /\ h <= ehead + 1
    /\ v \in active
    /\ ~equivocates(v, h, block_hash)
    /\ LET voters == votes[<<h, block_hash>>] \cup {v}
       IN  /\ votes' = [votes EXCEPT ![<<h, block_hash>>] = voters]
           /\ final' =
                IF /\ ~IsFinal(h, block_hash)
                   /\ exceeds_threshold(accumulated_weight(h, voters), total_weight(h))
                THEN final \cup {[height |-> h, hash |-> block_hash,
                                  counted |-> voters \ slashed,
                                  slashed_before |-> slashed]}
                ELSE final
    /\ cast' = cast \cup {<<v, h, block_hash, "Ok">>}
    /\ UNCHANGED <<estake, active, slashed, snap, ehead>>

\* The final block of the next height is committed: the head advances and
\* the stake map becomes the snapshot of the height after it.
CommitFinal ==
    /\ \E f \in final : f.height = ehead + 1
    /\ ehead' = ehead + 1
    /\ snap' = IF ehead + 2 \in VoteHeights
               THEN [snap EXCEPT ![ehead + 2] = estake] ELSE snap
    /\ UNCHANGED <<estake, active, slashed, votes, final, cast>>

VoteDroppedStep ==
    \E v \in Validators, h \in VoteHeights, b \in BlockHashes :
        VoteDropped(v, h, b) /\ UNCHANGED <<stakeVars, txVars, chainVars, blockVars, syncVars, netVars, slotVars, forkVars, dbVars, loopVars>>
VoteSlashedStep ==
    \E v \in Validators, h \in VoteHeights, b \in BlockHashes :
        VoteSlashed(v, h, b) /\ UNCHANGED <<stakeVars, txVars, chainVars, blockVars, syncVars, netVars, slotVars, forkVars, dbVars, loopVars>>
VoteRecordedStep ==
    \E v \in Validators, h \in VoteHeights, b \in BlockHashes :
        VoteRecorded(v, h, b) /\ UNCHANGED <<stakeVars, txVars, chainVars, blockVars, syncVars, netVars, slotVars, forkVars, dbVars, loopVars>>
CommitStep == CommitFinal /\ UNCHANGED <<stakeVars, txVars, chainVars, blockVars, syncVars, netVars, slotVars, forkVars, dbVars, loopVars>>

NextVote == VoteDroppedStep \/ VoteSlashedStep \/ VoteRecordedStep \/ CommitStep

(***************************************************************************)
(* Block                                                                   *)
(***************************************************************************)
MAX_TRANSACTIONS == 1000

\* The transactions blocks are built from, and the two the Merkle trees of
\* up to MaxLeaves leaves are built from.
BlockTxs == PoolTxs
LeafTxs == {PoolTx("a1", 0, TRUE), PoolTx("a1", 1, TRUE)}

\* tx.hash() as calculate_merkle_root takes it: a digest of the transaction.
TxHash(t) == Hash(<<"tx", t, 0>>)
\* [0; 32] and [1; 32]
ZeroHash == Hash(<<0>>)
OnesHash == Hash(<<1>>)

\* One pass of the loop over hashes.chunks(2) that leaves the last hash of an
\* odd level as it is.
NextLevel_carry_odd(hashes) ==
    [i \in 1..((Len(hashes) + 1) \div 2) |->
        IF 2 * i <= Len(hashes)
        THEN Hash(<<hashes[2 * i - 1], hashes[2 * i]>>)
        ELSE hashes[2 * i - 1]]

\* One pass of the loop over hashes.chunks(2) that feeds chunk[0] to the
\* hasher twice.
NextLevel_left_only(hashes) ==
    [i \in 1..((Len(hashes) + 1) \div 2) |->
        Hash(<<hashes[2 * i - 1], hashes[2 * i - 1]>>)]

\* One pass of the loop over hashes.chunks(2): every chunk is hashed, a chunk
\* of one with its hash fed twice.
NextLevel(hashes) ==
    [i \in 1..((Len(hashes) + 1) \div 2) |->
        IF 2 * i <= Len(hashes)
        THEN Hash(<<hashes[2 * i - 1], hashes[2 * i]>>)
        ELSE Hash(<<hashes[2 * i - 1], hashes[2 * i - 1]>>)]

RECURSIVE ReduceLevels(_)
\* while hashes.len() > 1 { hashes = next_level }; hashes[0]
ReduceLevels(hashes) ==
    IF Len(hashes) > 1 THEN ReduceLevels(NextLevel(hashes)) ELSE hashes[1]

\* Block::calculate_merkle_root
Block_calculate_merkle_root(transactions) ==
    IF transactions = <<>> THEN ZeroHash
    ELSE ReduceLevels([i \in 1..Len(transactions) |-> TxHash(transactions[i])])

\* The header digest Proof::new takes, as a number of ProofBits bits: for
\* fixed other fields it runs through every value as the nonce grows.
ProofBits == 3
HeaderDigest(header, salt) == (salt + header.nonce) % (2 ^ ProofBits)

\* The leading zero bits of a ProofBits-wide number.
LeadingZeroBits(n) ==
    ProofBits - Cardinality({k \in 0..(ProofBits - 1) : 2 ^ k <= n})

\* Proof::new(&header).is_valid(header.difficulty)
ProofIsValid(header, salt) ==
    LeadingZeroBits(HeaderDigest(header, salt)) >= header.difficulty

\* The digests' dependence on the rest of the header, as far as it matters:
\* a header valid at nonce 0 for small difficulties, and one that is not.
Salts == {1, 5}

RECURSIVE mine_nonce_stale(_, _)
\* mine() with the increment after the last Proof::new: the nonce left in
\* the header is one past the nonce the returned proof was made with.
mine_nonce_stale(header, salt) ==
    IF ProofIsValid(header, salt) THEN header.nonce + 1
    ELSE mine_nonce_stale([header EXCEPT !.nonce = @ + 1], salt)

RECURSIVE mine_nonce(_, _)
\* The nonce mine() leaves in the header: the first from header.nonce on whose
\* proof is valid.
mine_nonce(header, salt) ==
    IF ProofIsValid(header, salt) THEN header.nonce
    ELSE mine_nonce([header EXCEPT !.nonce = @ + 1], salt)

\* The error Block::new returns, or "Ok".
Block_new_result(transactions) ==
    IF Len(transactions) > MAX_TRANSACTIONS THEN "TooManyTransactions" ELSE "Ok"

\* The block Block::new builds.
Block_new(prev_block_hash, transactions, difficulty, t) ==
    [header |-> [version |-> 1, prev_block_hash |-> prev_block_hash,
                 merkle_root |-> Block_calculate_merkle_root(transactions),
                 timestamp |-> t, difficulty |-> difficulty, nonce |-> 0],
     transactions |-> transactions]

\* Block::validate: the error it returns, or "Ok".
validate(block, salt) ==
    IF Len(block.transactions) > MAX_TRANSACTIONS THEN "TooManyTransactions"
    ELSE IF Block_calculate_merkle_root(block.transactions) # block.header.merkle_root
         THEN "InvalidMerkleRoot"
    ELSE IF ~ProofIsValid(block.header, salt) THEN "InvalidProof"
    ELSE "Ok"

\* The transaction lists of up to n transactions drawn from txs.
TxLists(txs, n) == UNION {[1..k -> txs] : k \in 0..n}

\* MAX_TRANSACTIONS + 1 copies of one transaction.
TooManyTxs == [i \in 1..(MAX_TRANSACTIONS + 1) |-> PoolTx("a1", 0, TRUE)]

IdleBlockOp == [op |-> "none", result |-> "none"]

\* No block has been built.
IdleBlockVars ==
    /\ blk = <<>>
    /\ bpre = <<>>
    /\ bop = IdleBlockOp
    /\ bstage = "none"
    /\ bsalt = 0

\* A block as Block::new has just built it, of 1 to MaxLeaves transactions.
InitMerkleVars ==
    /\ \E txs \in TxLists(LeafTxs, MaxLeaves) \ {<<>>} :
          blk = <<Block_new(ZeroHash, txs, 0, 1)>>
    /\ bpre = <<>>
    /\ bop = [op |-> "new", result |-> "Ok"]
    /\ bstage = "new"
    /\ bsalt = 1

BlockNew(transactions, difficulty, salt) ==
    /\ bstage = "none"
    /\ bpre' = blk
    /\ bop' = [op |-> "new", result |-> Block_new_result(transactions)]
    /\ IF Block_new_result(transactions) = "Ok"
       THEN /\ blk' = <<Block_new(ZeroHash, transactions, difficulty, 1)>>
            /\ bstage' = "new"
            /\ bsalt' = salt
       ELSE UNCHANGED <<blk, bstage, bsalt>>

\* Block::mine, the whole loop.
Mine ==
    /\ bstage \in {"new", "mined"}
    /\ bpre' = blk
    /\ blk' = <<[blk[1] EXCEPT !.header.nonce = mine_nonce(blk[1].header, bsalt)]>>
    /\ bop' = [op |-> "mine", result |-> "Ok"]
    /\ bstage' = "mined"
    /\ UNCHANGED bsalt

\* block.header.merkle_root = [1; 32] on a mined block; the digest of the new
\* header is unrelated to the old one.
TamperMerkleRoot(salt) ==
    /\ bstage = "mined"
    /\ bpre' = blk
    /\ blk' = <<[blk[1] EXCEPT !.header.merkle_root = OnesHash]>>
    /\ bop' = [op |-> "tamper", result |-> "Ok"]
    /\ bstage' = "tampered"
    /\ bsalt' = salt

\* block.transactions[i] = t, for a transaction with another hash.
ReplaceTransaction(i, t) ==
    /\ bstage \in {"new", "mined"}
    /\ i \in 1..Len(blk[1].transactions)
    /\ TxHash(t) # TxHash(blk[1].transactions[i])
    /\ bpre' = blk
    /\ blk' = <<[blk[1] EXCEPT !.transactions[i] = t]>>
    /\ bop' = [op |-> "replace", result |-> "Ok"]
    /\ bstage' = "altered"
    /\ UNCHANGED bsalt

\* block.transactions grown past MAX_TRANSACTIONS after Block::new.
Overfill ==
    /\ bstage \in {"new", "mined"}
    /\ bpre' = blk
    /\ blk' = <<[blk[1] EXCEPT !.transactions = TooManyTxs]>>
    /\ bop' = [op |-> "overfill", result |-> "Ok"]
    /\ bstage' = "altered"
    /\ UNCHANGED bsalt

Validate ==
    /\ bstage # "none"
    /\ bpre' = blk
    /\ bop' = [op |-> "validate", result |-> validate(blk[1], bsalt)]
    /\ UNCHANGED <<blk, bstage, bsalt>>

BlockNewStep ==
    \E txs \in TxLists(BlockTxs, MaxBlockTxs) \cup {TooManyTxs},
       d \in 0..MaxDifficulty, salt \in Salts :
        BlockNew(txs, d, salt) /\ UNCHANGED <<stakeVars, txVars, chainVars, voteVars, syncVars, netVars, slotVars, forkVars, dbVars, loopVars>>
MineStep == Mine /\ UNCHANGED <<stakeVars, txVars, chainVars, voteVars, syncVars, netVars, slotVars, forkVars, dbVars, loopVars>>
TamperMerkleRootStep ==
    \E salt \in Salts :
        TamperMerkleRoot(salt) /\ UNCHANGED <<stakeVars, txVars, chainVars, voteVars, syncVars, netVars, slotVars, forkVars, dbVars, loopVars>>
ReplaceTransactionStep ==
    \E i \in 1..MaxLeaves, t \in BlockTxs :
        ReplaceTransaction(i, t) /\ UNCHANGED <<stakeVars, txVars, chainVars, voteVars, syncVars, netVars, slotVars, forkVars, dbVars, loopVars>>
OverfillStep == Overfill /\ UNCHANGED <<stakeVars, txVars, chainVars, voteVars, syncVars, netVars, slotVars, forkVars, dbVars, loopVars>>
ValidateStep == Validate /\ UNCHANGED <<stakeVars, txVars, chainVars, voteVars, syncVars, netVars, slotVars, forkVars, dbVars, loopVars>>

NextBlock ==
    \/ BlockNewStep
    \/ MineStep
    \/ TamperMerkleRootStep
    \/ ReplaceTransactionStep
    \/ OverfillStep
    \/ ValidateStep

NextMerkle == ReplaceTransactionStep \/ ValidateStep

(***************************************************************************)
(* Synchronizer::sync_with_peer, one cycle against one peer                *)
(***************************************************************************)
\* The range asked for in one fetch_block_range: current_height + 100.
ChunkSize == 100

\* The local heights a cycle starts from, the heights of the peer's chain,
\* and the heights at which a peer may serve a block that fails validation.
StartHeights == {0, 3}
PeerHeights == {1, 4, 100, 101, 250, MaxPeerHeight}
BadHeights == {1, 4, 100, 101, 150, 250}

\* A block of the peer's chain: its height, and whether it passes
\* verify_block and apply_transaction.
PeerBlock(h, bad) == [height |-> h, valid |-> h # bad]

\* peer.get_block_headers(start, end) with the bodies: the blocks above start
\* up to end, as far as the peer's chain reaches; a peer may also answer
\* every request with Ok and no block.
get_block_headers(p, start, end) ==
    IF p.empty THEN <<>>
    ELSE [i \in 1..((IF end < p.height THEN end ELSE p.height) - start) |->
             PeerBlock(start + i, p.bad)]

\* The range handed to fetch_block_range, started one block too high.
fetch_range_skip_one(current_height) == <<current_height + 1, current_height + ChunkSize>>

\* The range sync_with_peer hands to fetch_block_range.
fetch_range(current_height) == <<current_height, current_height + ChunkSize>>

\* process_block on a block of the peer's chain: it fails validation, is
\* already in the chain, extends the head, or has no parent in the chain.
sync_process_block(local_height, block) ==
    IF ~block.valid THEN "InvalidBlock"
    ELSE IF block.height <= local_height THEN "Known"
    ELSE IF block.height = local_height + 1 THEN "Appended"
    ELSE "UnknownParent"

\* The for loop going on to the next block after an error.
after_block_keep_going(result, rest) ==
    IF rest = <<>> THEN "loop" ELSE "batch"

\* Where sync_with_peer goes after process_block: return on an error, the
\* next block of the batch, or the while condition.
after_block(result, rest) ==
    IF result \in {"InvalidBlock", "UnknownParent"} THEN "aborted_block"
    ELSE IF rest = <<>> THEN "loop" ELSE "batch"

IdleSyncVars ==
    /\ speer = [height |-> 0, bad |-> 0, empty |-> FALSE]
    /\ slocal = 0
    /\ sstart = 0
    /\ send = 0
    /\ scur = 0
    /\ sbatch = <<>>
    /\ sappended = <<>>
    /\ sfailed = 0
    /\ spc = "idle"

\* The local chain at some height and a peer above it, before the cycle.
InitSyncVars ==
    /\ slocal \in StartHeights
    /\ \E h \in PeerHeights, bad \in BadHeights \cup {0} :
          /\ h > slocal
          /\ bad = 0 \/ (slocal < bad /\ bad <= h)
          /\ speer = [height |-> h, bad |-> bad, empty |-> FALSE]
    /\ sstart = 0
    /\ send = 0
    /\ scur = 0
    /\ sbatch = <<>>
    /\ sappended = <<>>
    /\ sfailed = 0
    /\ spc = "idle"

\* The same, and peers that answer every range request with an empty list.
InitAnyPeerVars ==
    /\ slocal \in StartHeights
    /\ \E h \in PeerHeights, bad \in BadHeights \cup {0}, empty \in BOOLEAN :
          /\ h > slocal
          /\ bad = 0 \/ (slocal < bad /\ bad <= h)
          /\ speer = [height |-> h, bad |-> bad, empty |-> empty]
    /\ sstart = 0
    /\ send = 0
    /\ scur = 0
    /\ sbatch = <<>>
    /\ sappended = <<>>
    /\ sfailed = 0
    /\ spc = "idle"

\* sync_with_network calls sync_with_peer(peer, local_height, highest_height).
SyncWithPeer ==
    /\ spc = "idle"
    /\ sstart' = slocal
    /\ send' = speer.height
    /\ scur' = slocal
    /\ spc' = "loop"
    /\ UNCHANGED <<speer, slocal, sbatch, sappended, sfailed>>

\* The while condition: the loop ends, or fetch_block_range is called and
\* the request is with the peer.
RequestRange ==
    /\ spc = "loop"
    /\ spc' = IF scur < send THEN "fetch" ELSE "done"
    /\ UNCHANGED <<speer, slocal, sstart, send, scur, sbatch, sappended, sfailed>>

\* fetch_block_range returns Ok(blocks): the for loop starts on them, or,
\* with no block to go through, the while condition is next.
FetchBlockRange ==
    /\ spc = "fetch"
    /\ LET blocks == get_block_headers(speer, fetch_range(scur)[1], fetch_range(scur)[2])
       IN  /\ sbatch' = blocks
           /\ spc' = IF blocks = <<>> THEN "loop" ELSE "batch"
    /\ UNCHANGED <<speer, slocal, sstart, send, scur, sappended, sfailed>>

\* fetch_block_range returns an error: the cycle returns.
FetchFails ==
    /\ spc = "fetch"
    /\ spc' = "aborted_fetch"
    /\ UNCHANGED <<speer, slocal, sstart, send, scur, sbatch, sappended, sfailed>>

\* One turn of the for loop: process_block on the next block of the batch.
ProcessNextBlock ==
    /\ spc = "batch"
    /\ LET block == Head(sbatch)
           result == sync_process_block(slocal, block)
       IN  /\ slocal' = IF result = "Appended" THEN block.height ELSE slocal
           /\ sappended' = IF result = "Appended"
                           THEN Append(sappended, block.height) ELSE sappended
           /\ scur' = IF result \in {"Appended", "Known"} THEN scur + 1 ELSE scur
           /\ sfailed' = IF result \in {"InvalidBlock", "UnknownParent"} /\ sfailed = 0
                         THEN block.height ELSE sfailed
           /\ sbatch' = Tail(sbatch)
           /\ spc' = after_block(result, Tail(sbatch))
    /\ UNCHANGED <<speer, sstart, send>>

SyncWithPeerStep ==
    SyncWithPeer /\ UNCHANGED <<stakeVars, txVars, chainVars, voteVars, blockVars, netVars, slotVars, forkVars, dbVars, loopVars>>
RequestRangeStep ==
    RequestRange /\ UNCHANGED <<stakeVars, txVars, chainVars, voteVars, blockVars, netVars, slotVars, forkVars, dbVars, loopVars>>
FetchBlockRangeStep ==
    FetchBlockRange /\ UNCHANGED <<stakeVars, txVars, chainVars, voteVars, blockVars, netVars, slotVars, forkVars, dbVars, loopVars>>
FetchFailsStep ==
    FetchFails /\ UNCHANGED <<stakeVars, txVars, chainVars, voteVars, blockVars, netVars, slotVars, forkVars, dbVars, loopVars>>
ProcessNextBlockStep ==
    ProcessNextBlock /\ UNCHANGED <<stakeVars, txVars, chainVars, voteVars, blockVars, netVars, slotVars, forkVars, dbVars, loopVars>>

NextSync ==
    \/ SyncWithPeerStep
    \/ RequestRangeStep
    \/ FetchBlockRangeStep
    \/ FetchFailsStep
    \/ ProcessNextBlockStep

(***************************************************************************)
(* Synchronizer::start: the cycles of sync_with_network                    *)
(***************************************************************************)
\* The peers get_active_peers() returns, in its order: two peers, each with
\* a chain and possibly one block on it that fails validation.
NetPeers ==
    {ps \in [1..2 -> [height : 1..MaxNetHeight, bad : 0..MaxNetHeight]] :
        \A i \in 1..2 : ps[i].bad <= ps[i].height}

RECURSIVE highest_from(_, _, _, _)
\* The for loop of sync_with_network from peer i on: a peer replaces the
\* choice when its height is strictly above the highest seen so far.
highest_from(peers, i, highest_height, highest_peer) ==
    IF i > Len(peers) THEN highest_peer
    ELSE IF peers[i].height > highest_height
         THEN highest_from(peers, i + 1, peers[i].height, i)
         ELSE highest_from(peers, i + 1, highest_height, highest_peer)

\* The peer sync_with_network hands to sync_with_peer, 0 for None.
highest_peer(peers, local_height) == highest_from(peers, 1, local_height, 0)

\* How sync_with_peer(peer, local_height, peer.height) ends: on the block
\* that fails validation, the blocks below it appended, or at the peer's
\* height.
sync_with_peer_end(local_height, peer) ==
    IF peer.bad > local_height
    THEN [result |-> "Failed", height |-> peer.bad - 1]
    ELSE [result |-> "Completed", height |-> peer.height]

IdleNetVars ==
    /\ npeers = <<>>
    /\ nlocal = 0
    /\ nsel = 0
    /\ ncycles = <<>>
    /\ npc = "sleep"

InitNetVars ==
    /\ npeers \in NetPeers
    /\ nlocal = 0
    /\ nsel = 0
    /\ ncycles = <<>>
    /\ npc = "sleep"

\* sync_with_network up to the call of sync_with_peer; it returns when no
\* peer is above the local height.
SyncWithNetwork ==
    /\ npc = "sleep"
    /\ Len(ncycles) < MaxCycles
    /\ LET peer == highest_peer(npeers, nlocal)
       IN  IF peer = 0
           THEN /\ ncycles' = Append(ncycles, [peer |-> 0, result |-> "NoPeer",
                                               height |-> nlocal])
                /\ UNCHANGED <<nsel, npc>>
           ELSE /\ nsel' = peer
                /\ npc' = "syncing"
                /\ UNCHANGED ncycles
    /\ UNCHANGED <<npeers, nlocal>>

\* sync_with_peer runs to its return: error! and return on a failure, no
\* other step on either way out; the loop then sleeps.
SyncWithPeerReturns ==
    /\ npc = "syncing"
    /\ LET end == sync_with_peer_end(nlocal, npeers[nsel])
       IN  /\ nlocal' = end.height
           /\ ncycles' = Append(ncycles, [peer |-> nsel, result |-> end.result,
                                          height |-> end.height])
    /\ nsel' = 0
    /\ npc' = "sleep"
    /\ UNCHANGED npeers

\* The first fetch_block_range of the cycle returns an error.
SyncFetchError ==
    /\ npc = "syncing"
    /\ ncycles' = Append(ncycles, [peer |-> nsel, result |-> "Failed",
                                   height |-> nlocal])
    /\ nsel' = 0
    /\ npc' = "sleep"
    /\ UNCHANGED <<npeers, nlocal>>

SyncWithNetworkStep ==
    SyncWithNetwork /\ UNCHANGED <<stakeVars, txVars, chainVars, voteVars, blockVars, syncVars, slotVars, forkVars, dbVars, loopVars>>
SyncWithPeerReturnsStep ==
    SyncWithPeerReturns /\ UNCHANGED <<stakeVars, txVars, chainVars, voteVars, blockVars, syncVars, slotVars, forkVars, dbVars, loopVars>>
SyncFetchErrorStep ==
    SyncFetchError /\ UNCHANGED <<stakeVars, txVars, chainVars, voteVars, blockVars, syncVars, slotVars, forkVars, dbVars, loopVars>>

NextNet ==
    \/ SyncWithNetworkStep
    \/ SyncWithPeerReturnsStep
    \/ SyncFetchErrorStep

(***************************************************************************)
(* Validator::start of several validators, and proposer selection          *)
(***************************************************************************)
\* The order cumulative weights are taken in.
ValidatorOrder == <<"v1", "v2", "v3">>

\* The weight of the first i validators of the order.
CumulativeWeight(w, i) == Weight(w, {ValidatorOrder[k] : k \in 1..i})

\* hash(H || addr) read as an integer: a fixed draw per height.
ProposerDraw(H) == 611 * H

\* Proposer selection for height H from the snapshot w: the validator whose
\* cumulative-weight range holds the draw modulo the total weight.
select_proposer(H, w) ==
    LET d == ProposerDraw(H) % Weight(w, Validators)
    IN  ValidatorOrder[CHOOSE i \in 1..Len(ValidatorOrder) :
            CumulativeWeight(w, i - 1) <= d /\ d < CumulativeWeight(w, i)]

SlotGenesis == [height |-> 0, validator |-> "genesis", parent |-> <<>>]

\* What names a block of this chain: its height and its proposer.
SlotId(block) == <<block.height, block.validator>>

\* Validator::create_block by validator v on the head of chain c.
slot_create_block(c, v) ==
    [height |-> c[Len(c)].height + 1, validator |-> v, parent |-> SlotId(c[Len(c)])]

\* add_block: the block is appended when it extends the head.
slot_add_block(c, block) ==
    IF block.parent = SlotId(c[Len(c)]) THEN Append(c, block) ELSE c

IdleSlotVars ==
    /\ slotStake = NoSnapshot
    /\ slotChain = <<SlotGenesis>>
    /\ slotPc = [v \in Validators |-> "tick"]
    /\ slotBlock = [v \in Validators |-> <<>>]

InitSlotVars ==
    /\ slotStake \in StakeConfigs
    /\ slotChain = <<SlotGenesis>>
    /\ slotPc = [v \in Validators |-> "tick"]
    /\ slotBlock = [v \in Validators |-> <<>>]

\* validate_and_propose_block of validator v with valid transactions
\* pending, up to broadcast_block(..).await.
SlotCreate(v) ==
    /\ slotStake[v] > 0
    /\ slotPc[v] = "tick"
    /\ slotChain[Len(slotChain)].height < MaxSlotHeight
    /\ slotBlock' = [slotBlock EXCEPT ![v] = <<slot_create_block(slotChain, v)>>]
    /\ slotPc' = [slotPc EXCEPT ![v] = "broadcast"]
    /\ UNCHANGED <<slotStake, slotChain>>

\* propose_block of validator v after a successful broadcast.
SlotAdd(v) ==
    /\ slotPc[v] = "broadcast"
    /\ slotChain' = slot_add_block(slotChain, slotBlock[v][1])
    /\ slotBlock' = [slotBlock EXCEPT ![v] = <<>>]
    /\ slotPc' = [slotPc EXCEPT ![v] = "tick"]
    /\ UNCHANGED slotStake

\* propose_block of validator v when broadcast_block fails.
SlotBroadcastFails(v) ==
    /\ slotPc[v] = "broadcast"
    /\ slotBlock' = [slotBlock EXCEPT ![v] = <<>>]
    /\ slotPc' = [slotPc EXCEPT ![v] = "tick"]
    /\ UNCHANGED <<slotStake, slotChain>>

SlotCreateStep ==
    \E v \in Validators : SlotCreate(v) /\ UNCHANGED <<stakeVars, txVars, chainVars, voteVars, blockVars, syncVars, netVars, forkVars, dbVars, loopVars>>
SlotAddStep ==
    \E v \in Validators : SlotAdd(v) /\ UNCHANGED <<stakeVars, txVars, chainVars, voteVars, blockVars, syncVars, netVars, forkVars, dbVars, loopVars>>
SlotBroadcastFailsStep ==
    \E v \in Validators : SlotBroadcastFails(v) /\ UNCHANGED <<stakeVars, txVars, chainVars, voteVars, blockVars, syncVars, netVars, forkVars, dbVars, loopVars>>

NextSlot ==
    \/ SlotCreateStep
    \/ SlotAddStep
    \/ SlotBroadcastFailsStep

(***************************************************************************)
(* ConsensusEngine: fork choice                                            *)
(***************************************************************************)
\* The two forks of test_fork_choice_rule: A at heights 1, 2 and B at
\* heights 1, 2, 3, both on genesis "G".
ForkA == <<"A1", "A2">>
ForkB == <<"B1", "B2", "B3">>
ForkBlocks == {"A1", "A2", "B1", "B2", "B3"}

ForkHeight(b) == CASE b \in {"A1", "B1"} -> 1 [] b \in {"A2", "B2"} -> 2 [] OTHER -> 3
ForkParent(b) ==
    CASE b = "A2" -> "A1" [] b = "B2" -> "B1" [] b = "B3" -> "B2" [] OTHER -> "G"

\* Block::new(height, Address::random(), vec![]): the hashes fall in any
\* order; three of the orders.
ForkHashes ==
    { [b \in ForkBlocks |-> CASE b = "A1" -> 1 [] b = "A2" -> 2 [] b = "B1" -> 3
                              [] b = "B2" -> 4 [] OTHER -> 5],
      [b \in ForkBlocks |-> CASE b = "A1" -> 5 [] b = "A2" -> 4 [] b = "B1" -> 3
                              [] b = "B2" -> 2 [] OTHER -> 1],
      [b \in ForkBlocks |-> CASE b = "A1" -> 2 [] b = "A2" -> 5 [] b = "B1" -> 1
                              [] b = "B2" -> 4 [] OTHER -> 3] }

\* The votes and finality the engine holds for the blocks: none, as in the
\* test; votes for A2; A1 final.
ForkVotes ==
    { [votes |-> [b \in ForkBlocks |-> 0], final |-> {}],
      [votes |-> [b \in ForkBlocks |-> IF b = "A2" THEN 600 ELSE 0], final |-> {}],
      [votes |-> [b \in ForkBlocks |-> IF b = "A1" THEN 1000 ELSE 0], final |-> {"A1"}] }

RECURSIVE chain_to(_)
\* The blocks from genesis to b, in height order.
chain_to(b) == IF b = "G" THEN <<>> ELSE Append(chain_to(ForkParent(b)), b)

\* The blocks of known with no known child.
Tips(known) == {b \in known : \A c \in known : ForkParent(c) # b}

\* The height of the highest final block on the chain of tip t.
finalized_height(t, fin) ==
    LET fs == {ForkHeight(chain_to(t)[i]) :
                 i \in {k \in 1..Len(chain_to(t)) : chain_to(t)[k] \in fin}}
    IN  IF fs = {} THEN 0 ELSE CHOOSE h \in fs : \A o \in fs : o <= h

RECURSIVE SumVotes(_, _)
SumVotes(w, blocks) ==
    IF blocks = <<>> THEN 0 ELSE w[Head(blocks)] + SumVotes(w, Tail(blocks))

\* The vote weight of the blocks on the chain of tip t, summed.
cumulative_vote_weight(t, w) == SumVotes(w, chain_to(t))

\* Fork choice between two tips: the greater (finalized_height,
\* cumulative_vote_weight) wins, a tie goes to the lower block hash.
tip_wins(t, o, hashes, w, fin) ==
    \/ finalized_height(t, fin) > finalized_height(o, fin)
    \/ /\ finalized_height(t, fin) = finalized_height(o, fin)
       /\ \/ cumulative_vote_weight(t, w) > cumulative_vote_weight(o, w)
          \/ /\ cumulative_vote_weight(t, w) = cumulative_vote_weight(o, w)
             /\ hashes[t] < hashes[o]

\* ConsensusEngine::get_canonical_chain: the chain of the winning tip.
get_canonical_chain(known, hashes, w, fin) ==
    chain_to(CHOOSE t \in Tips(known) :
                \A o \in Tips(known) \ {t} : tip_wins(t, o, hashes, w, fin))

IdleForkVars ==
    /\ fkHash = [b \in ForkBlocks |-> 0]
    /\ fkVotes = [b \in ForkBlocks |-> 0]
    /\ fkFinal = {}
    /\ fkKnown = {}
    /\ fkCanon = <<>>

InitForkVars ==
    /\ fkHash \in ForkHashes
    /\ \E v \in ForkVotes : fkVotes = v.votes /\ fkFinal = v.final
    /\ fkKnown = {}
    /\ fkCanon = <<>>

\* engine.add_block(block): taken when its parent is known, refused
\* otherwise.
ForkAddBlock(b) ==
    /\ b \notin fkKnown
    /\ fkKnown' = IF ForkParent(b) \in fkKnown \cup {"G"} THEN fkKnown \cup {b} ELSE fkKnown
    /\ fkCanon' = <<>>
    /\ UNCHANGED <<fkHash, fkVotes, fkFinal>>

\* engine.get_canonical_chain()
ForkGetCanonicalChain ==
    /\ fkKnown # {}
    /\ fkCanon' = <<get_canonical_chain(fkKnown, fkHash, fkVotes, fkFinal)>>
    /\ UNCHANGED <<fkHash, fkVotes, fkFinal, fkKnown>>

ForkAddBlockStep ==
    \E b \in ForkBlocks : ForkAddBlock(b) /\ UNCHANGED <<stakeVars, txVars, chainVars, voteVars, blockVars, syncVars, netVars, slotVars, dbVars, loopVars>>
ForkGetCanonicalChainStep ==
    ForkGetCanonicalChain /\ UNCHANGED <<stakeVars, txVars, chainVars, voteVars, blockVars, syncVars, netVars, slotVars, dbVars, loopVars>>

NextFork ==
    \/ ForkAddBlockStep
    \/ ForkGetCanonicalChainStep

(***************************************************************************)
(* Database                                                                *)
(***************************************************************************)
\* Strings are sequences of bytes: "ke", "key", "key1" .. "key4".
StrKe == <<107, 101>>
StrKey == <<107, 101, 121>>
StrKeyN(n) == <<107, 101, 121, 48 + n>>
DbKeys == {StrKe, StrKey} \cup {StrKeyN(n) : n \in 1..4}
DbPrefixes == {StrKe, StrKey, StrKeyN(1)}

\* The value the test writes under a key: "value" and the key's last byte.
DbValue(k) == <<118, 97, 108, 117, 101, k[Len(k)]>>

\* The lists handed to batch_write: the test's, and a short one.
DbBatches ==
    {<<StrKeyN(2), StrKeyN(3), StrKeyN(4)>>, <<StrKey, StrKeyN(1)>>}

\* bincode::serialize of a string: its length as a little-endian u64, then
\* its bytes.
bincode_serialize(str) ==
    <<Len(str) % 256, (Len(str) \div 256) % 256, 0, 0, 0, 0, 0, 0>> \o str

\* bincode::deserialize of a string: the bytes after the length, as many as
\* the length says.
bincode_deserialize(bytes) == SubSeq(bytes, 9, 8 + bytes[1] + 256 * bytes[2])

\* <[u8]>::starts_with
starts_with(bytes, prefix) ==
    Len(prefix) <= Len(bytes) /\ SubSeq(bytes, 1, Len(prefix)) = prefix

RECURSIVE BytesLess(_, _)
\* RocksDB's default comparator: bytewise, the shorter of two equal starts
\* first.
BytesLess(a, b) ==
    IF b = <<>> THEN FALSE
    ELSE IF a = <<>> THEN TRUE
    ELSE IF Head(a) # Head(b) THEN Head(a) < Head(b)
    ELSE BytesLess(Tail(a), Tail(b))

RECURSIVE InOrder(_)
\* The keys of a set in the comparator's order.
InOrder(keys) ==
    IF keys = {} THEN <<>>
    ELSE LET first == CHOOSE k \in keys : \A o \in keys \ {k} : BytesLess(k, o)
         IN  <<first>> \o InOrder(keys \ {first})

\* db.iterator(IteratorMode::From(from, Forward)): the keys at or after from.
iterator_from(store, from) ==
    InOrder({k \in DOMAIN store : ~BytesLess(k, from)})

RECURSIVE scan_while(_, _, _)
\* The for loop of prefix_scan: it breaks at the first key that does not
\* start with the prefix bytes.
scan_while(keys, prefix_bytes, store) ==
    IF keys = <<>> THEN <<>>
    ELSE IF ~starts_with(Head(keys), prefix_bytes) THEN <<>>
    ELSE <<<<bincode_deserialize(Head(keys)), bincode_deserialize(store[Head(keys)])>>>>
         \o scan_while(Tail(keys), prefix_bytes, store)

\* Database::prefix_scan
prefix_scan(store, prefix) ==
    scan_while(iterator_from(store, bincode_serialize(prefix)),
               bincode_serialize(prefix), store)

\* db.put(key_bytes, value_bytes)
db_put(store, key, value) ==
    [x \in (DOMAIN store) \cup {bincode_serialize(key)} |->
        IF x = bincode_serialize(key) THEN bincode_serialize(value) ELSE store[x]]

\* db.delete(key_bytes)
db_delete(store, key) ==
    [x \in (DOMAIN store) \ {bincode_serialize(key)} |-> store[x]]

RECURSIVE db_batch_write(_, _)
\* Database::batch_write: every pair of the list put, in order.
db_batch_write(store, keys) ==
    IF keys = <<>> THEN store
    ELSE db_batch_write(db_put(store, Head(keys), DbValue(Head(keys))), Tail(keys))

NoScan == [prefix |-> <<>>, results |-> <<>>, done |-> FALSE]

IdleDbVars ==
    /\ dbStore = <<>>
    /\ dbScan = NoScan

DbPut(k) ==
    /\ dbStore' = db_put(dbStore, k, DbValue(k))
    /\ dbScan' = NoScan

DbDelete(k) ==
    /\ dbStore' = db_delete(dbStore, k)
    /\ dbScan' = NoScan

DbBatchWrite(keys) ==
    /\ dbStore' = db_batch_write(dbStore, keys)
    /\ dbScan' = NoScan

DbPrefixScan(p) ==
    /\ dbScan' = [prefix |-> p, results |-> prefix_scan(dbStore, p), done |-> TRUE]
    /\ UNCHANGED dbStore

DbPutStep ==
    \E k \in DbKeys : DbPut(k) /\ UNCHANGED <<stakeVars, txVars, chainVars, voteVars, blockVars, syncVars, netVars, slotVars, forkVars, loopVars>>
DbDeleteStep ==
    \E k \in DbKeys : DbDelete(k) /\ UNCHANGED <<stakeVars, txVars, chainVars, voteVars, blockVars, syncVars, netVars, slotVars, forkVars, loopVars>>
DbBatchWriteStep ==
    \E b \in DbBatches : DbBatchWrite(b) /\ UNCHANGED <<stakeVars, txVars, chainVars, voteVars, blockVars, syncVars, netVars, slotVars, forkVars, loopVars>>
DbPrefixScanStep ==
    \E p \in DbPrefixes : DbPrefixScan(p) /\ UNCHANGED <<stakeVars, txVars, chainVars, voteVars, blockVars, syncVars, netVars, slotVars, forkVars, loopVars>>

NextDb ==
    \/ DbPutStep
    \/ DbDeleteStep
    \/ DbBatchWriteStep
    \/ DbPrefixScanStep

(***************************************************************************)
(* Validator::start and Synchronizer::start, and the shutdown signal       *)
(***************************************************************************)
IdleLoopVars ==
    /\ shutdown = FALSE
    /\ lvPc = "tick"
    /\ lvLast = "none"
    /\ lsPc = "cycle"
    /\ lsLast = "none"

\* The shutdown signal is raised. Neither loop holds or reads it.
RaiseShutdown ==
    /\ ~shutdown
    /\ shutdown' = TRUE
    /\ UNCHANGED <<lvPc, lvLast, lsPc, lsLast>>

\* Validator::start: interval.tick().await returns and the loop body calls
\* validate_and_propose_block.
ValidatorTick ==
    /\ lvPc = "tick"
    /\ lvPc' = "slot"
    /\ UNCHANGED <<shutdown, lvLast, lsPc, lsLast>>

\* validate_and_propose_block returns early: nothing pending, or nothing
\* valid.
ValidatorSlotEmpty ==
    /\ lvPc = "slot"
    /\ lvPc' = "tick"
    /\ lvLast' = "NoPending"
    /\ UNCHANGED <<shutdown, lsPc, lsLast>>

\* validate_and_propose_block reaches broadcast_block(..).await.
ValidatorBroadcast ==
    /\ lvPc = "slot"
    /\ lvPc' = "broadcast"
    /\ UNCHANGED <<shutdown, lvLast, lsPc, lsLast>>

\* The broadcast returns and the block is added; back to the loop.
ValidatorCommit ==
    /\ lvPc = "broadcast"
    /\ lvPc' = "tick"
    /\ lvLast' = "Committed"
    /\ UNCHANGED <<shutdown, lsPc, lsLast>>

\* The broadcast fails; back to the loop.
ValidatorBroadcastFails ==
    /\ lvPc = "broadcast"
    /\ lvPc' = "tick"
    /\ lvLast' = "BroadcastError"
    /\ UNCHANGED <<shutdown, lsPc, lsLast>>

\* sync_with_network finds no peer above the local height and returns.
SynchronizerNoPeer ==
    /\ lsPc = "cycle"
    /\ lsPc' = "sleep"
    /\ lsLast' = "NoPeer"
    /\ UNCHANGED <<shutdown, lvPc, lvLast>>

\* sync_with_peer sends a range request.
SynchronizerRequest ==
    /\ lsPc = "cycle"
    /\ lsPc' = "request"
    /\ UNCHANGED <<shutdown, lvPc, lvLast, lsLast>>

\* The request fails: the cycle returns.
SynchronizerRequestFails ==
    /\ lsPc = "request"
    /\ lsPc' = "sleep"
    /\ lsLast' = "Failed"
    /\ UNCHANGED <<shutdown, lvPc, lvLast>>

\* The request is answered; process_block takes the write lock.
SynchronizerProcess ==
    /\ lsPc = "request"
    /\ lsPc' = "commit"
    /\ UNCHANGED <<shutdown, lvPc, lvLast, lsLast>>

\* process_block fails: the cycle returns.
SynchronizerProcessFails ==
    /\ lsPc = "commit"
    /\ lsPc' = "sleep"
    /\ lsLast' = "Failed"
    /\ UNCHANGED <<shutdown, lvPc, lvLast>>

\* The last block of the cycle is committed: the cycle returns.
SynchronizerCompletes ==
    /\ lsPc = "commit"
    /\ lsPc' = "sleep"
    /\ lsLast' = "Completed"
    /\ UNCHANGED <<shutdown, lvPc, lvLast>>

\* Synchronizer::start: the sleep of 30 s ends and the loop goes round.
SynchronizerWakes ==
    /\ lsPc = "sleep"
    /\ lsPc' = "cycle"
    /\ UNCHANGED <<shutdown, lvPc, lvLast, lsLast>>

RaiseShutdownStep ==
    RaiseShutdown /\ UNCHANGED <<stakeVars, txVars, chainVars, voteVars, blockVars, syncVars, netVars, slotVars, forkVars, dbVars>>
ValidatorTickStep ==
    ValidatorTick /\ UNCHANGED <<stakeVars, txVars, chainVars, voteVars, blockVars, syncVars, netVars, slotVars, forkVars, dbVars>>
ValidatorSlotEmptyStep ==
    ValidatorSlotEmpty /\ UNCHANGED <<stakeVars, txVars, chainVars, voteVars, blockVars, syncVars, netVars, slotVars, forkVars, dbVars>>
ValidatorBroadcastStep ==
    ValidatorBroadcast /\ UNCHANGED <<stakeVars, txVars, chainVars, voteVars, blockVars, syncVars, netVars, slotVars, forkVars, dbVars>>
ValidatorCommitStep ==
    ValidatorCommit /\ UNCHANGED <<stakeVars, txVars, chainVars, voteVars, blockVars, syncVars, netVars, slotVars, forkVars, dbVars>>
ValidatorBroadcastFailsStep ==
    ValidatorBroadcastFails /\ UNCHANGED <<stakeVars, txVars, chainVars, voteVars, blockVars, syncVars, netVars, slotVars, forkVars, dbVars>>
SynchronizerNoPeerStep ==
    SynchronizerNoPeer /\ UNCHANGED <<stakeVars, txVars, chainVars, voteVars, blockVars, syncVars, netVars, slotVars, forkVars, dbVars>>
SynchronizerRequestStep ==
    SynchronizerRequest /\ UNCHANGED <<stakeVars, txVars, chainVars, voteVars, blockVars, syncVars, netVars, slotVars, forkVars, dbVars>>
SynchronizerRequestFailsStep ==
    SynchronizerRequestFails /\ UNCHANGED <<stakeVars, txVars, chainVars, voteVars, blockVars, syncVars, netVars, slotVars, forkVars, dbVars>>
SynchronizerProcessStep ==
    SynchronizerProcess /\ UNCHANGED <<stakeVars, txVars, chainVars, voteVars, blockVars, syncVars, netVars, slotVars, forkVars, dbVars>>
SynchronizerProcessFailsStep ==
    SynchronizerProcessFails /\ UNCHANGED <<stakeVars, txVars, chainVars, voteVars, blockVars, syncVars, netVars, slotVars, forkVars, dbVars>>
SynchronizerCompletesStep ==
    SynchronizerCompletes /\ UNCHANGED <<stakeVars, txVars, chainVars, voteVars, blockVars, syncVars, netVars, slotVars, forkVars, dbVars>>
SynchronizerWakesStep ==
    SynchronizerWakes /\ UNCHANGED <<stakeVars, txVars, chainVars, voteVars, blockVars, syncVars, netVars, slotVars, forkVars, dbVars>>

\* The steps of the validator task and of the synchronizer task.
ValidatorLoop ==
    \/ ValidatorTickStep
    \/ ValidatorSlotEmptyStep
    \/ ValidatorBroadcastStep
    \/ ValidatorCommitStep
    \/ ValidatorBroadcastFailsStep
SynchronizerLoop ==
    \/ SynchronizerNoPeerStep
    \/ SynchronizerRequestStep
    \/ SynchronizerRequestFailsStep
    \/ SynchronizerProcessStep
    \/ SynchronizerProcessFailsStep
    \/ SynchronizerCompletesStep
    \/ SynchronizerWakesStep

NextLoops ==
    \/ RaiseShutdownStep
    \/ ValidatorTickStep
    \/ ValidatorSlotEmptyStep
    \/ ValidatorBroadcastStep
    \/ ValidatorCommitStep
    \/ ValidatorBroadcastFailsStep
    \/ SynchronizerNoPeerStep
    \/ SynchronizerRequestStep
    \/ SynchronizerRequestFailsStep
    \/ SynchronizerProcessStep
    \/ SynchronizerProcessFailsStep
    \/ SynchronizerCompletesStep
    \/ SynchronizerWakesStep

(***************************************************************************)
(* Properties                                                              *)
(***************************************************************************)
\* C1: a validator that cast votes at one height for two distinct hashes is
\* in the slashed set and not in the active set; the conflicting vote
\* returned Slashed and was not recorded.
C1_EquivocatorSlashed ==
    /\ \A c1 \in cast, c2 \in cast :
          (c1[1] = c2[1] /\ c1[2] = c2[2] /\ c1[3] # c2[3]) =>
              /\ c1[1] \in slashed
              /\ c1[1] \notin active
              /\ ~(c1[4] = "Ok" /\ c2[4] = "Ok")
    /\ \A c \in cast :
          /\ c[4] = "Slashed" => c[1] \notin votes[<<c[2], c[3]>>]
          /\ c[4] = "Ok" => c[1] \in votes[<<c[2], c[3]>>]

\* A validator voted X and then Y at one height and got Slashed for it.
C1_Witness ==
    \E c1 \in cast, c2 \in cast :
        /\ c1[1] = c2[1] /\ c1[2] = c2[2] /\ c1[3] # c2[3]
        /\ c1[4] = "Ok" /\ c2[4] = "Slashed"

\* C2: at most one block per height is final.
C2_OneFinalPerHeight ==
    \A f \in final, g \in final : f.height = g.height => f.hash = g.hash

\* A block is final at a height where a validator, slashed since, also
\* cast a vote for the other block.
C2_Witness ==
    \E f \in final, c \in cast :
        /\ c[2] = f.height /\ c[3] # f.hash
        /\ c[1] \in slashed
        /\ votes[<<f.height, c[3]>>] # {}

\* C3: a block is marked final only on votes whose weight in the snapshot
\* of its height exceeds 2/3 of that snapshot's total; with stakes 600 and
\* 400, once V1 is slashed V1 is not active, nobody but V2 is, and no block
\* of height 1 is marked final from then on.
C3_FinalNeedsTwoThirds ==
    /\ \A f \in final :
          /\ f.counted \subseteq votes[<<f.height, f.hash>>]
          /\ 3 * Weight(snap[f.height], f.counted)
                > 2 * Weight(snap[f.height], Validators)
    /\ (snap[1]["v1"] = 600 /\ snap[1]["v2"] = 400) =>
          /\ \A f \in final : f.height = 1 => "v1" \notin f.slashed_before
          /\ "v1" \in slashed =>
                /\ "v1" \notin active
                /\ active \subseteq {"v2"}
                /\ ("v2" \notin slashed => active = {"v2"})

\* V1 (600) voted X then Y at height 1 and was slashed, V2 (400) has its
\* vote recorded at height 1, and nothing is final.
C3_Witness ==
    /\ snap[1]["v1"] = 600 /\ snap[1]["v2"] = 400
    /\ <<"v1", 1, "X", "Ok">> \in cast
    /\ <<"v1", 1, "Y", "Slashed">> \in cast
    /\ "v2" \in votes[<<1, "X">>]
    /\ active = {"v2"}
    /\ final = {}

RECURSIVE TxNonces(_, _)
\* The nonces of sender a in a transaction list, in order.
TxNonces(transactions, a) ==
    IF transactions = <<>> THEN <<>>
    ELSE (IF Head(transactions).from = a THEN <<Head(transactions).nonce>> ELSE <<>>)
         \o TxNonces(Tail(transactions), a)

RECURSIVE CommittedNonces(_, _)
\* The nonces of sender a in the committed blocks, in chain order.
CommittedNonces(c, a) ==
    IF c = <<>> THEN <<>>
    ELSE TxNonces(Head(c).transactions, a) \o CommittedNonces(Tail(c), a)

\* C6: for every account the committed nonces start at 0 and strictly
\* increase along the chain, and the block the validator builds carries the
\* sender's next nonces, with none repeated, stale or skipped.
C6_NoncesIncreaseFromZero ==
    \A a \in Senders :
        /\ LET ns == CommittedNonces(chain, a)
           IN  /\ ns # <<>> => ns[1] = 0
               /\ \A k \in 1..(Len(ns) - 1) : ns[k] < ns[k + 1]
        /\ vblock # <<>> =>
              LET bs == TxNonces(vblock[1].transactions, a)
              IN  \A k \in 1..Len(bs) : bs[k] = nonces[a] + k - 1

\* C7: verify with the signer's public key returns Ok(true) after sign, and
\* Ok(false) once a field of the signed transaction was changed.
C7_SignThenVerify ==
    (/\ signedWith # "none"
     /\ verifyResult.pk = PublicKeyOf(signedWith)) =>
        verifyResult.result = IF tampered THEN "OkFalse" ELSE "OkTrue"

\* C8: hash() is the same before and after sign(), does not depend on the
\* signature field, and changes with the nonce.
C8_HashIgnoresSignature ==
    /\ (signedWith # "none" /\ ~tampered) => hash(tx) = preSignHash[1]
    /\ hash(tx) = hash([tx EXCEPT !.signature = <<>>])
    /\ hash(tx) # hash([tx EXCEPT !.nonce = @ + 1])

\* C9: every entry of the stake map has amount >= min_stake.
C9_EntriesAtLeastMinStake ==
    \A a \in DOMAIN stakes : stakes[a].amount >= min_stake

\* C10: stake() below min_stake returns InsufficientBalance and leaves the
\* map as it was; otherwise it adds exactly amount to the address's entry
\* (created at 0 when absent), leaves the other entries as they were, and
\* keeps staked_at and last_reward_height of an existing entry.
C10_StakeContract ==
    lastOp.op = "stake" =>
        IF lastOp.amount < min_stake
        THEN lastOp.result = "InsufficientBalance" /\ stakes = pre
        ELSE /\ lastOp.result = "Ok"
             /\ DOMAIN stakes = DOMAIN pre \cup {lastOp.address}
             /\ stakes[lastOp.address].amount =
                   (IF lastOp.address \in DOMAIN pre
                    THEN pre[lastOp.address].amount ELSE 0) + lastOp.amount
             /\ \A a \in DOMAIN pre \ {lastOp.address} : stakes[a] = pre[a]
             /\ lastOp.address \in DOMAIN pre =>
                   /\ stakes[lastOp.address].staked_at = pre[lastOp.address].staked_at
                   /\ stakes[lastOp.address].last_reward_height =
                         pre[lastOp.address].last_reward_height

\* stake() succeeded on an entry that existed, was created earlier and had
\* been rewarded, while another address holds a stake.
C10_Witness ==
    /\ lastOp.op = "stake"
    /\ lastOp.result = "Ok"
    /\ lastOp.address \in DOMAIN pre
    /\ pre[lastOp.address].last_reward_height > 0
    /\ pre[lastOp.address].staked_at + 1 < clock
    /\ DOMAIN pre # {lastOp.address}

\* C11: unstake() on an address without an entry returns StakeNotFound, with
\* an amount above the entry's returns InsufficientBalance, both leaving the
\* map as it was; otherwise it returns the amount, lowers the entry by
\* exactly the amount, and removes the entry exactly when nothing remains.
C11_UnstakeContract ==
    lastOp.op = "unstake" =>
        IF lastOp.address \notin DOMAIN pre
        THEN lastOp.result = "StakeNotFound" /\ stakes = pre
        ELSE IF lastOp.amount > pre[lastOp.address].amount
        THEN lastOp.result = "InsufficientBalance" /\ stakes = pre
        ELSE /\ lastOp.result = "Ok"
             /\ lastOp.returned = lastOp.amount
             /\ \A a \in DOMAIN pre \ {lastOp.address} :
                   a \in DOMAIN stakes /\ stakes[a] = pre[a]
             /\ DOMAIN stakes \subseteq DOMAIN pre
             /\ (lastOp.address \notin DOMAIN stakes)
                   <=> (pre[lastOp.address].amount - lastOp.amount = 0)
             /\ lastOp.address \in DOMAIN stakes =>
                   stakes[lastOp.address] =
                      [pre[lastOp.address] EXCEPT !.amount = @ - lastOp.amount]

\* unstake() took an entry's whole amount and removed it while another
\* address keeps its stake.
C11_Witness ==
    /\ lastOp.op = "unstake"
    /\ lastOp.result = "Ok"
    /\ lastOp.address \in DOMAIN pre
    /\ lastOp.address \notin DOMAIN stakes
    /\ DOMAIN stakes # {}

\* C12: get_total_staked() is the sum of the amounts in the persisted map; a
\* successful stake raises it by the amount, a successful unstake lowers it
\* by the amount, a failed stake or unstake leaves it as it was.
C12_TotalStaked ==
    /\ get_total_staked(stakes) =
          BagCardinality([a \in DOMAIN stakes |-> stakes[a].amount])
    /\ lastOp.op = "stake" =>
          get_total_staked(stakes) =
             SumAmounts(pre, DOMAIN pre) + (IF lastOp.result = "Ok" THEN lastOp.amount ELSE 0)
    /\ lastOp.op = "unstake" =>
          get_total_staked(stakes) =
             SumAmounts(pre, DOMAIN pre) - (IF lastOp.result = "Ok" THEN lastOp.amount ELSE 0)

\* Two addresses hold a stake and the last call, an unstake of part of one
\* entry, succeeded.
C12_Witness ==
    /\ lastOp.op = "unstake"
    /\ lastOp.result = "Ok"
    /\ Cardinality(DOMAIN stakes) = 2
    /\ stakes[lastOp.address].amount > 0

\* C13: distribute_rewards(H) credits every entry
\* floor(amount * reward_rate * (H - last_reward_height)).
C13_RewardIsFloor ==
    (lastOp.op = "distribute_rewards" /\ lastOp.result = "Ok") =>
        \A a \in DOMAIN pre :
            stakes[a].amount - pre[a].amount =
               (pre[a].amount * RateNum * (lastOp.height - pre[a].last_reward_height))
                  \div RateDen

\* C14: a distribute_rewards(H) right after a successful distribute_rewards(H)
\* leaves every amount and last_reward_height as it was; a successful
\* distribute_rewards(H) stamps every entry with H and keeps the set of
\* staked addresses.
C14_DistributeIdempotent ==
    /\ [][(/\ lastOp.op = "distribute_rewards"
           /\ lastOp.result = "Ok"
           /\ lastOp'.op = "distribute_rewards"
           /\ lastOp'.height = lastOp.height
           /\ clock' = clock + 1)
          => (/\ lastOp'.result = "Ok"
              /\ DOMAIN stakes' = DOMAIN stakes
              /\ \A a \in DOMAIN stakes :
                    /\ stakes'[a].amount = stakes[a].amount
                    /\ stakes'[a].last_reward_height = stakes[a].last_reward_height)]_vars
    /\ []((lastOp.op = "distribute_rewards" /\ lastOp.result = "Ok") =>
             /\ DOMAIN stakes = DOMAIN pre
             /\ \A a \in DOMAIN stakes : stakes[a].last_reward_height = lastOp.height)

\* stake, distribute_rewards(H), distribute_rewards(H) with H > 0 on an entry
\* large enough to be credited by the first call.
C14_Witness ==
    /\ clock = 3
    /\ lastOp.op = "distribute_rewards"
    /\ lastOp.result = "Ok"
    /\ lastOp.height > 0
    /\ \E a \in DOMAIN pre :
          /\ pre[a].last_reward_height = lastOp.height
          /\ pre[a].amount > 500
    /\ stakes = pre

\* C31: no call lowers the last_reward_height of an entry it keeps, and
\* distribute_rewards lowers no amount, whatever the heights passed,
\* including a height below an entry's last_reward_height.
C31_RewardHeightNonDecreasing ==
    \A a \in DOMAIN pre \cap DOMAIN stakes :
        /\ stakes[a].last_reward_height >= pre[a].last_reward_height
        /\ lastOp.op = "distribute_rewards" => stakes[a].amount >= pre[a].amount

\* The depth of the tree over n leaves: the least d with 2^d >= n.
TreeDepth(n) == CHOOSE d \in 0..n : 2 ^ d >= n /\ (d = 0 \/ 2 ^ (d - 1) < n)

RECURSIVE MerkleTree(_, _)
\* The root of the tree of depth d over at most 2^d hashes, built from the
\* top: the left half, then the right half, which repeats the left one when
\* no hash is left for it.
MerkleTree(hs, d) ==
    IF d = 0 THEN hs[1]
    ELSE LET half == 2 ^ (d - 1)
             left == MerkleTree(SubSeq(hs, 1, IF Len(hs) < half THEN Len(hs) ELSE half), d - 1)
             right == IF Len(hs) > half
                      THEN MerkleTree(SubSeq(hs, half + 1, Len(hs)), d - 1)
                      ELSE left
         IN  Hash(<<left, right>>)

\* The reference Merkle root of a non-empty list of hashes.
MerkleRef(hs) == MerkleTree(hs, TreeDepth(Len(hs)))

\* C15: for a non-empty transaction list the root Block::new stores and
\* Block::validate recomputes is the reference Merkle root, pairs hashed left
\* to right and the last hash of an odd level paired with itself; for three
\* hashes it is H(H(h1 || h2) || H(h3 || h3)).
C15_MerkleRootIsReference ==
    (blk # <<>> /\ blk[1].transactions # <<>>) =>
        LET txs == blk[1].transactions
            hs == [i \in 1..Len(txs) |-> TxHash(txs[i])]
        IN  /\ Block_calculate_merkle_root(txs) = MerkleRef(hs)
            /\ bstage = "new" => blk[1].header.merkle_root = MerkleRef(hs)
            /\ Len(hs) = 3 =>
                  Block_calculate_merkle_root(txs) =
                     Hash(<<Hash(<<hs[1], hs[2]>>), Hash(<<hs[3], hs[3]>>)>>)

\* validate() accepted a block of five transactions as Block::new built it:
\* the first and the second level of its tree are odd.
C15_Witness ==
    /\ bstage = "new"
    /\ bop = [op |-> "validate", result |-> "Ok"]
    /\ Len(blk[1].transactions) = 5

\* C16: replacing the transaction at any position by one with another hash
\* gives another Merkle root.
C16_AlteredTxChangesRoot ==
    blk # <<>> =>
        /\ \A i \in 1..Len(blk[1].transactions), t \in BlockTxs :
              TxHash(t) # TxHash(blk[1].transactions[i]) =>
                 Block_calculate_merkle_root([blk[1].transactions EXCEPT ![i] = t])
                    # Block_calculate_merkle_root(blk[1].transactions)
        /\ bop.op = "replace" =>
              Block_calculate_merkle_root(blk[1].transactions)
                 # Block_calculate_merkle_root(bpre[1].transactions)
        /\ (bop.op = "validate" /\ bstage = "altered") => bop.result # "Ok"

\* The last of five transactions, the one paired with itself, was replaced.
C16_Witness ==
    /\ bop.op = "replace"
    /\ Len(blk[1].transactions) = 5
    /\ blk[1].transactions[5] # bpre[1].transactions[5]
    /\ blk[1].transactions[4] = blk[1].transactions[5]

\* The sequence of transaction hashes calculate_merkle_root starts from.
TxHashes(transactions) == [i \in 1..Len(transactions) |-> TxHash(transactions[i])]

\* C32: a transaction list with another sequence of hashes than the block's,
\* of the same length or not, has another Merkle root, and validate() does
\* not accept the block's header with both lists.
C32_RootBindsTransactionList ==
    blk # <<>> =>
        \A txs \in TxLists(LeafTxs, MaxLeaves) :
            TxHashes(txs) # TxHashes(blk[1].transactions) =>
               /\ Block_calculate_merkle_root(txs)
                     # Block_calculate_merkle_root(blk[1].transactions)
               /\ ~(/\ validate(blk[1], bsalt) = "Ok"
                    /\ validate([blk[1] EXCEPT !.transactions = txs], bsalt) = "Ok")

\* C17: validate() returns Ok only for a block of at most MAX_TRANSACTIONS
\* transactions whose merkle_root is the recomputed root, whose proof meets
\* the difficulty, whose transactions all carry a signature that verifies,
\* and in which no two transactions share (from, nonce).
C17_ValidateChecksEverything ==
    (bop = [op |-> "validate", result |-> "Ok"]) =>
        LET txs == blk[1].transactions
        IN  /\ Len(txs) <= MAX_TRANSACTIONS
            /\ blk[1].header.merkle_root = Block_calculate_merkle_root(txs)
            /\ ProofIsValid(blk[1].header, bsalt)
            /\ \A i \in 1..Len(txs) : txs[i].sig_ok
            /\ \A i \in 1..Len(txs), j \in 1..Len(txs) :
                  (i # j) => ~(txs[i].from = txs[j].from /\ txs[i].nonce = txs[j].nonce)

\* C18: when mine() returns on a block built by Block::new the proof is valid
\* for header.difficulty and only header.nonce has changed; validate() then
\* returns Ok; with merkle_root overwritten afterwards validate() returns an
\* error.
C18_MineThenValidate ==
    /\ bop.op = "mine" =>
          /\ ProofIsValid(blk[1].header, bsalt)
          /\ blk[1] = [bpre[1] EXCEPT !.header.nonce = blk[1].header.nonce]
          /\ blk[1].header.nonce >= bpre[1].header.nonce
    /\ (bop.op = "validate" /\ bstage = "mined") => bop.result = "Ok"
    /\ (bop.op = "validate" /\ bstage = "tampered") => bop.result # "Ok"

\* A block with transactions was mined, which took a search, had its
\* merkle_root overwritten, and validate() refused it.
C18_Witness ==
    /\ bstage = "tampered"
    /\ bop = [op |-> "validate", result |-> "InvalidMerkleRoot"]
    /\ blk[1].header.nonce > 0
    /\ blk[1].header.difficulty > 0
    /\ blk[1].transactions # <<>>

\* C19: against an honest peer at height P above the local height L, the
\* cycle appends the heights L+1, L+2, ... in this order, each once and none
\* above P, does not stop on a block, and when it completes the local height
\* is P (L = 0, P = 250 gives 250; L = 0, P = 100 gives 100).
C19_SyncReachesPeerHeight ==
    speer.bad = 0 =>
        /\ spc # "aborted_block"
        /\ sfailed = 0
        /\ \A i \in 1..Len(sappended) :
              sappended[i] = sstart + i /\ sappended[i] <= speer.height
        /\ spc # "idle" => slocal = sstart + Len(sappended)
        /\ spc = "done" =>
              /\ slocal = speer.height
              /\ Len(sappended) = speer.height - sstart

\* The cycle from height 0 against an honest peer at height 250 has completed
\* at local height 250.
C19_Witness ==
    /\ spc = "done"
    /\ speer = [height |-> 250, bad |-> 0, empty |-> FALSE]
    /\ sstart = 0
    /\ slocal = 250
    /\ Len(sappended) = 250

\* C20: once process_block has failed on the block of height k the cycle has
\* returned: the local height is k - 1, the heights appended by the cycle
\* are those below k, and nothing at k or above is appended.
C20_SyncAbortsOnFailure ==
    sfailed # 0 =>
        /\ spc = "aborted_block"
        /\ sfailed = speer.bad
        /\ slocal = sfailed - 1
        /\ Len(sappended) = sfailed - 1 - sstart
        /\ \A i \in 1..Len(sappended) :
              sappended[i] = sstart + i /\ sappended[i] < sfailed

\* The block of height 150 in the middle of the second batch failed: the
\* cycle from height 0 stopped at local height 149 with 149 blocks appended
\* and the rest of the batch unprocessed.
C20_Witness ==
    /\ spc = "aborted_block"
    /\ sfailed = 150
    /\ sstart = 0
    /\ slocal = 149
    /\ Len(sappended) = 149
    /\ sbatch # <<>>

\* C21: a peer a cycle failed with is not chosen by the next cycle, and when
\* another peer is above the local height the next cycle runs against such
\* a peer.
C21_FailedPeerBlacklisted ==
    \A i \in 1..(Len(ncycles) - 1) :
        ncycles[i].result = "Failed" =>
            /\ ncycles[i + 1].peer # ncycles[i].peer
            /\ (\E q \in 1..Len(npeers) :
                    q # ncycles[i].peer /\ npeers[q].height > ncycles[i].height)
               => /\ ncycles[i + 1].peer # 0
                  /\ npeers[ncycles[i + 1].peer].height > ncycles[i].height


\* C22: processing again a block the local chain already holds changes
\* neither the chain (so not its height) nor the account state.
C22_KnownBlockIsNoOp ==
    \A i \in 2..Len(chain) :
        LET again == process_block(chain, nonces, AsBlock(chain[i]))
        IN  again.chain = chain /\ again.state = nonces

\* C23: every transaction the account state counts as applied is in a block
\* of the chain: a block process_block refused leaves nothing applied.
C23_AppliedOnlyWithBlock ==
    \A a \in Senders : \A n \in 0..(nonces[a] - 1) :
        \E i \in 1..Len(chain) : \E j \in 1..Len(chain[i].transactions) :
            chain[i].transactions[j] = PoolTx(a, n, TRUE)

\* The transactions of a sequence, as a set.
TxSet(transactions) == {transactions[k] : k \in 1..Len(transactions)}

\* C24: no transaction of a block the validator committed is still in the
\* pending pool once the slot is over, and no two blocks the validator
\* committed hold the same transaction.
C24_IncludedOnce ==
    /\ vpc = "tick" =>
          \A i \in 1..Len(chain) :
              chain[i].validator = "validator" =>
                  TxSet(chain[i].transactions) \cap TxSet(pending) = {}
    /\ \A i, j \in 1..Len(chain) :
          /\ i < j
          /\ chain[i].validator = "validator"
          /\ chain[j].validator = "validator"
          => TxSet(chain[i].transactions) \cap TxSet(chain[j].transactions) = {}

\* C25: every block above genesis was proposed by the validator proposer
\* selection designates for its height from the stake snapshot, and no two
\* blocks of the chain have the same height.
C25_OnlyExpectedProposerCommits ==
    /\ \A i \in 2..Len(slotChain) :
          slotChain[i].validator = select_proposer(slotChain[i].height, slotStake)
    /\ \A i, j \in 1..Len(slotChain) :
          slotChain[i].height = slotChain[j].height => i = j

\* C26: a slot that found the pending pool empty has still committed an
\* empty block of the validator, so the head is above genesis.
C26_EmptyPoolStillCommits ==
    vresult = "NoPending" =>
        /\ get_height(chain) >= 1
        /\ \E i \in 2..Len(chain) :
              chain[i].validator = "validator" /\ chain[i].transactions = <<>>

\* C27: with every block of fork A (heights 1, 2) and of fork B (heights
\* 1, 2, 3) added and no vote or finality recorded, get_canonical_chain
\* returns B's three blocks in height order.
C27_LongerForkIsCanonical ==
    /\ fkKnown = ForkBlocks
    /\ fkCanon # <<>>
    /\ fkFinal = {}
    /\ \A b \in ForkBlocks : fkVotes[b] = 0
    => fkCanon[1] = ForkB

\* The (key, value) pairs stored, as the strings they were written from.
StoredPairs ==
    {<<bincode_deserialize(kb), bincode_deserialize(dbStore[kb])>> : kb \in DOMAIN dbStore}

\* C28: prefix_scan(p) returns the stored pairs whose key starts with p,
\* each once, in key order, and no other pair.
C28_PrefixScanReturnsPrefixed ==
    dbScan.done =>
        LET expected == {e \in StoredPairs : starts_with(e[1], dbScan.prefix)}
            results == dbScan.results
        IN  /\ {results[i] : i \in 1..Len(results)} = expected
            /\ Len(results) = Cardinality(expected)
            /\ \A i, j \in 1..Len(results) :
                  i < j => BytesLess(results[i][1], results[j][1])

\* C29: once the shutdown signal is raised, the validator loop and the
\* synchronizer loop both eventually have exited.
C29_LoopsExitAfterShutdown ==
    shutdown ~> (lvPc = "exited" /\ lsPc = "exited")

\* C30: a sync_with_peer that has entered its loop eventually returns,
\* completed or aborted, whatever the peer answers.
C30_SyncWithPeerTerminates ==
    (spc = "loop") ~> (spc \in {"done", "aborted_fetch", "aborted_block"})

(***************************************************************************)
(* Specifications                                                          *)
(***************************************************************************)
InitStake == InitStakeVars /\ IdleTxVars /\ InitChainVars /\ IdleVoteVars /\ IdleBlockVars /\ IdleSyncVars /\ IdleNetVars /\ IdleSlotVars /\ IdleForkVars /\ IdleDbVars /\ IdleLoopVars
SpecStake == InitStake /\ [][NextStake]_vars

InitTx == InitTxVars /\ InitStakeVars /\ InitChainVars /\ IdleVoteVars /\ IdleBlockVars /\ IdleSyncVars /\ IdleNetVars /\ IdleSlotVars /\ IdleForkVars /\ IdleDbVars /\ IdleLoopVars
SpecTx == InitTx /\ [][NextTx]_vars

InitChain == InitChainVars /\ InitStakeVars /\ IdleTxVars /\ IdleVoteVars /\ IdleBlockVars /\ IdleSyncVars /\ IdleNetVars /\ IdleSlotVars /\ IdleForkVars /\ IdleDbVars /\ IdleLoopVars
SpecChain == InitChain /\ [][NextChain]_vars

InitVote == InitVoteVars /\ InitStakeVars /\ IdleTxVars /\ InitChainVars /\ IdleBlockVars /\ IdleSyncVars /\ IdleNetVars /\ IdleSlotVars /\ IdleForkVars /\ IdleDbVars /\ IdleLoopVars
SpecVote == InitVote /\ [][NextVote]_vars

InitBlock == IdleBlockVars /\ InitStakeVars /\ IdleTxVars /\ InitChainVars /\ IdleVoteVars /\ IdleSyncVars /\ IdleNetVars /\ IdleSlotVars /\ IdleForkVars /\ IdleDbVars /\ IdleLoopVars
SpecBlock == InitBlock /\ [][NextBlock]_vars

InitMerkle == InitMerkleVars /\ InitStakeVars /\ IdleTxVars /\ InitChainVars /\ IdleVoteVars /\ IdleSyncVars /\ IdleNetVars /\ IdleSlotVars /\ IdleForkVars /\ IdleDbVars /\ IdleLoopVars
SpecMerkle == InitMerkle /\ [][NextMerkle]_vars

InitSync ==
    InitSyncVars /\ InitStakeVars /\ IdleTxVars /\ InitChainVars /\ IdleVoteVars /\ IdleBlockVars /\ IdleNetVars /\ IdleSlotVars /\ IdleForkVars /\ IdleDbVars /\ IdleLoopVars
SpecSync == InitSync /\ [][NextSync]_vars

\* sync_with_peer as a task against any peer: the steps the synchronizer
\* takes by itself are eventually taken; a failing fetch is the peer's
\* choice.
InitAnyPeer ==
    InitAnyPeerVars /\ InitStakeVars /\ IdleTxVars /\ InitChainVars /\ IdleVoteVars /\ IdleBlockVars /\ IdleNetVars /\ IdleSlotVars /\ IdleForkVars /\ IdleDbVars /\ IdleLoopVars
SpecAnyPeer ==
    /\ InitAnyPeer
    /\ [][NextSync]_vars
    /\ WF_vars(SyncWithPeerStep)
    /\ WF_vars(RequestRangeStep)
    /\ WF_vars(FetchBlockRangeStep)
    /\ WF_vars(ProcessNextBlockStep)

InitNet ==
    InitNetVars /\ InitStakeVars /\ IdleTxVars /\ InitChainVars /\ IdleVoteVars /\ IdleBlockVars /\ IdleSyncVars /\ IdleSlotVars /\ IdleForkVars /\ IdleDbVars /\ IdleLoopVars
SpecNet == InitNet /\ [][NextNet]_vars

InitSlot ==
    InitSlotVars /\ InitStakeVars /\ IdleTxVars /\ InitChainVars /\ IdleVoteVars /\ IdleBlockVars /\ IdleSyncVars /\ IdleNetVars /\ IdleForkVars /\ IdleDbVars /\ IdleLoopVars
SpecSlot == InitSlot /\ [][NextSlot]_vars

InitFork ==
    InitForkVars /\ InitStakeVars /\ IdleTxVars /\ InitChainVars /\ IdleVoteVars /\ IdleBlockVars /\ IdleSyncVars /\ IdleNetVars /\ IdleSlotVars /\ IdleDbVars /\ IdleLoopVars
SpecFork == InitFork /\ [][NextFork]_vars

InitDb ==
    IdleDbVars /\ InitStakeVars /\ IdleTxVars /\ InitChainVars /\ IdleVoteVars /\ IdleBlockVars /\ IdleSyncVars /\ IdleNetVars /\ IdleSlotVars /\ IdleForkVars /\ IdleLoopVars
SpecDb == InitDb /\ [][NextDb]_vars

\* The two tasks under the runtime's scheduler: a task that can take a step
\* is eventually run.
InitLoops ==
    IdleLoopVars /\ InitStakeVars /\ IdleTxVars /\ InitChainVars /\ IdleVoteVars /\ IdleBlockVars /\ IdleSyncVars /\ IdleNetVars /\ IdleSlotVars /\ IdleForkVars /\ IdleDbVars
SpecLoops ==
    /\ InitLoops
    /\ [][NextLoops]_vars
    /\ WF_vars(ValidatorLoop)
    /\ WF_vars(SynchronizerLoop)

====
